---- MODULE Spec2Model ----
(***************************************************************************)
(* Tournament registration client (src/tournament-manager/src/App.jsx).    *)
(*                                                                         *)
(* Text is a sequence of one-character strings, so that trimming,          *)
(* upper-casing, splitting and number parsing are computed, not assumed.   *)
(* A JavaScript number is a record: NaN, or a sign, an integer part and    *)
(* the digits of the fraction (trailing zeros dropped).                    *)
(*                                                                         *)
(* React: an event handler reads the values of the last render of App     *)
(* (`rendered`: the events list, the route and the registration fields)    *)
(* and queues state updaters; updaters run in order against the latest     *)
(* state, so an action applies its updater to `events` at once. The        *)
(* handlers of navigation, typing and the modal end with the render that   *)
(* follows them; after Register and Unregister the render is the separate  *)
(* action Render, so that a second submission may be handled by the        *)
(* handlers of the same render.                                            *)
(***************************************************************************)
EXTENDS Integers, Sequences, FiniteSets, TLC

(***************************** text ****************************************)

Digits == <<"0", "1", "2", "3", "4", "5", "6", "7", "8", "9">>

Lower == <<"a", "b", "c", "d", "e", "f", "g", "h", "i", "j", "k", "l", "m",
           "n", "o", "p", "q", "r", "s", "t", "u", "v", "w", "x", "y", "z">>

Upper == <<"A", "B", "C", "D", "E", "F", "G", "H", "I", "J", "K", "L", "M",
           "N", "O", "P", "Q", "R", "S", "T", "U", "V", "W", "X", "Y", "Z">>

\* The characters the regular expression class \s and String.trim() treat
\* as white space, among the characters the model types.
WhiteSpace == {" ", "\n", "\r", "\t"}

LineBreaks == {"\r", "\n"}

IsDigit(c) == \E i \in 1..10 : Digits[i] = c

DigitVal(c) == (CHOOSE i \in 1..10 : Digits[i] = c) - 1

\* s without the characters of `drop`: replace(/[drop]/g, "")
Without(s, drop) == SelectSeq(s, LAMBDA c : c \notin drop)

\* every maximal run of characters of `set` replaced by the one character
\* `by`: replace(/[set]+/g, by)
RECURSIVE CollapseRuns(_, _, _)
CollapseRuns(s, set, by) ==
    IF s = << >> THEN << >>
    ELSE IF Head(s) \in set
         THEN IF Len(s) > 1 /\ s[2] \in set
              THEN CollapseRuns(Tail(s), set, by)
              ELSE <<by>> \o CollapseRuns(Tail(s), set, by)
         ELSE <<Head(s)>> \o CollapseRuns(Tail(s), set, by)

RECURSIVE DropLeading(_, _)
DropLeading(s, set) ==
    IF s # << >> /\ Head(s) \in set THEN DropLeading(Tail(s), set) ELSE s

RECURSIVE DropTrailing(_, _)
DropTrailing(s, set) ==
    IF s # << >> /\ s[Len(s)] \in set
    THEN DropTrailing(SubSeq(s, 1, Len(s) - 1), set)
    ELSE s

\* String.prototype.trim
Trim(s) == DropTrailing(DropLeading(s, WhiteSpace), WhiteSpace)

ToUpperChar(c) ==
    IF \E i \in 1..26 : Lower[i] = c
    THEN Upper[CHOOSE i \in 1..26 : Lower[i] = c]
    ELSE c

\* String.prototype.toUpperCase
ToUpperCase(s) == [i \in 1..Len(s) |-> ToUpperChar(s[i])]

\* String.prototype.toLowerCase
ToLowerCase(s) ==
    [i \in 1..Len(s) |->
        IF \E j \in 1..26 : Upper[j] = s[i]
        THEN Lower[CHOOSE j \in 1..26 : Upper[j] = s[i]]
        ELSE s[i]]

sanitizeText(s) == Trim(CollapseRuns(s, LineBreaks, " "))

\* the identifier trimmed and upper-cased, the white space inside it kept
normalizeTrimmedOnly(v) == ToUpperCase(sanitizeText(v))

\* the identifier with its letters left as typed
normalizeWithoutUpperCase(v) == Without(sanitizeText(v), WhiteSpace)

normalizeNeuronId(v) == Without(ToUpperCase(sanitizeText(v)), WhiteSpace)

\* s.split(/[seps]+/).filter(Boolean): the maximal runs of characters that
\* are not separators.
RECURSIVE SplitRuns(_, _)
SplitRuns(s, seps) ==
    LET t == DropLeading(s, seps)
        n == IF \E i \in 1..Len(t) : t[i] \in seps
             THEN (CHOOSE i \in 1..Len(t) :
                      /\ t[i] \in seps
                      /\ \A j \in 1..(i - 1) : t[j] \notin seps) - 1
             ELSE Len(t)
    IN  IF t = << >> THEN << >>
        ELSE <<SubSeq(t, 1, n)>> \o SplitRuns(SubSeq(t, n + 1, Len(t)), seps)

\* String(n) for an integer n >= 0
RECURSIVE NatToText(_)
NatToText(n) ==
    IF n < 10 THEN <<Digits[n + 1]>>
    ELSE NatToText(n \div 10) \o <<Digits[(n % 10) + 1]>>

\* the text left at its own width
PadStartNone(s) == s

\* s.padStart(2, "0")
PadStart2(s) == IF Len(s) < 2 THEN [i \in 1..(2 - Len(s)) |-> "0"] \o s ELSE s

\* the value of a run of decimal digits
RECURSIVE DigitsToNat(_)
DigitsToNat(s) ==
    IF s = << >> THEN 0
    ELSE 10 * DigitsToNat(SubSeq(s, 1, Len(s) - 1)) + DigitVal(s[Len(s)])

(***************************** numbers *************************************)

NaN == [nan |-> TRUE, neg |-> FALSE, int |-> 0, frac |-> << >>]

Num(neg, int, frac) == [nan |-> FALSE, neg |-> neg, int |-> int, frac |-> frac]

IntNum(i) == Num(i < 0, IF i < 0 THEN -i ELSE i, << >>)

\* the characters of `s` up to its first character that is no digit
LeadingDigits(s) ==
    IF \E i \in 1..Len(s) : ~IsDigit(s[i])
    THEN SubSeq(s, 1, (CHOOSE i \in 1..Len(s) :
                          /\ ~IsDigit(s[i])
                          /\ \A j \in 1..(i - 1) : IsDigit(s[j])) - 1)
    ELSE s

\* Number(s) for a string s: white space trimmed, the empty string is 0,
\* an optional sign, then digits with an optional fraction; anything else
\* is NaN. (Exponents, hexadecimal and "Infinity" need letters the model
\* never types.)
JsNumber(s) ==
    LET t    == Trim(s)
        sgn  == t # << >> /\ Head(t) \in {"+", "-"}
        neg  == t # << >> /\ Head(t) = "-"
        body == IF sgn THEN Tail(t) ELSE t
        ip   == LeadingDigits(body)
        rest == SubSeq(body, Len(ip) + 1, Len(body))
        fp   == IF rest = << >> THEN << >> ELSE Tail(rest)
    IN  IF t = << >> THEN Num(FALSE, 0, << >>)
        ELSE IF /\ (rest = << >> \/ Head(rest) = ".")
                /\ \A i \in 1..Len(fp) : IsDigit(fp[i])
                /\ Len(ip) + Len(fp) > 0
             THEN Num(neg, DigitsToNat(ip), DropTrailing(fp, {"0"}))
             ELSE NaN

\* n < 0
IsNegative(n) == ~n.nan /\ n.neg /\ (n.int > 0 \/ n.frac # << >>)

\* n >= 0
IsNotNegative(n) == ~n.nan /\ ~IsNegative(n)

\* n > 0
IsPositive(n) == ~n.nan /\ ~n.neg /\ (n.int > 0 \/ n.frac # << >>)

\* Number.isFinite(n): the model's numbers are NaN or finite
IsFinite(n) == ~n.nan

\* Math.trunc(n)
Trunc(n) == [n EXCEPT !.frac = << >>]

\* the integer a truncated number stands for
IntOf(n) == IF n.neg THEN -n.int ELSE n.int

\* A value that is a string in some places and a number in others (a form
\* field, a stored playerCap) carries its type.
StrV(s) == [t |-> "str", s |-> s]

NumV(n) == [t |-> "num", n |-> n]

asIntOrNaN(v) ==
    IF v.t = "str" /\ v.s = << >> THEN NaN
    ELSE LET n == IF v.t = "str" THEN JsNumber(v.s) ELSE v.n
         IN  IF ~IsFinite(n) THEN NaN ELSE Trunc(n)

(***************************** dates ***************************************)

DateSeparators == {"/", ".", "-"}

IsLeapYear(y) == (y % 4 = 0 /\ y % 100 # 0) \/ y % 400 = 0

DaysInMonth(y, m) ==
    IF m = 2 THEN (IF IsLeapYear(y) THEN 29 ELSE 28)
    ELSE IF m \in {4, 6, 9, 11} THEN 30 ELSE 31

\* a date that is taken as given, whatever the month's length
JsDateNoRollover(y, m, d) == <<y, m, d>>

\* new Date(y, m - 1, d) for m in 1..12 and d in 1..31, read back with
\* getFullYear, getMonth + 1 and getDate: a day past the month's end rolls
\* over into the next month.
JsDate(y, m, d) ==
    IF d <= DaysInMonth(y, m) THEN <<y, m, d>>
    ELSE IF m = 12 THEN <<y + 1, 1, d - DaysInMonth(y, m)>>
         ELSE <<y, m + 1, d - DaysInMonth(y, m)>>

DateFail == [ok |-> FALSE, norm |-> << >>]

parseDateFlexible(input) ==
    LET raw     == sanitizeText(input)
        kept    == SelectSeq(raw, LAMBDA c :
                       IsDigit(c) \/ c \in DateSeparators \/ c \in WhiteSpace)
        cleaned == DropTrailing(Trim(CollapseRuns(kept, WhiteSpace, " ")),
                                DateSeparators \cup WhiteSpace)
        parts   == SplitRuns(cleaned, DateSeparators \cup WhiteSpace)
    IN  IF raw = << >> THEN DateFail
        ELSE IF Len(parts) # 3 THEN DateFail
        ELSE LET dd == DigitsToNat(parts[1])
                 mm == DigitsToNat(parts[2])
                 y0 == DigitsToNat(parts[3])
             IN  IF mm < 1 \/ mm > 12 THEN DateFail
                 ELSE IF dd < 1 \/ dd > 31 THEN DateFail
                 ELSE IF Len(parts[3]) \notin {1, 2, 4} THEN DateFail
                 ELSE LET yy       == IF Len(parts[3]) = 4 THEN y0 % 100 ELSE y0
                          fullYear == 2000 + yy
                      IN  IF JsDate(fullYear, mm, dd) # <<fullYear, mm, dd>>
                          THEN DateFail
                          ELSE [ok   |-> TRUE,
                                norm |-> PadStart2(NatToText(dd)) \o <<"/">>
                                         \o PadStart2(NatToText(mm)) \o <<"/">>
                                         \o PadStart2(NatToText(yy))]

\* the input kept as typed once it has parsed
keepDateInput(input) ==
    IF parseDateFlexible(input).ok THEN input ELSE << >>

normalizeDateInput(input) ==
    LET r == parseDateFlexible(input) IN IF r.ok THEN r.norm ELSE << >>

\* the hour checked, the minute taken as it comes
isValidTimeAnyMinute(s) ==
    LET v == sanitizeText(s)
    IN  /\ Len(v) = 5
        /\ IsDigit(v[1]) /\ IsDigit(v[2]) /\ v[3] = ":"
        /\ IsDigit(v[4]) /\ IsDigit(v[5])
        /\ DigitsToNat(SubSeq(v, 1, 2)) <= 23

\* the pattern alone, the ranges of hour and minute unchecked
isTimeShaped(s) ==
    LET v == sanitizeText(s)
    IN  /\ Len(v) = 5
        /\ IsDigit(v[1]) /\ IsDigit(v[2]) /\ v[3] = ":"
        /\ IsDigit(v[4]) /\ IsDigit(v[5])

isValidTimeHHMM(s) ==
    LET v == sanitizeText(s)
    IN  /\ Len(v) = 5
        /\ IsDigit(v[1]) /\ IsDigit(v[2]) /\ v[3] = ":"
        /\ IsDigit(v[4]) /\ IsDigit(v[5])
        /\ DigitsToNat(SubSeq(v, 1, 2)) <= 23
        /\ DigitsToNat(SubSeq(v, 4, 5)) <= 59

\* an address is one that holds an @
validateEmailAtOnly(v) ==
    \E i \in 1..Len(v) : v[i] = "@"

\* /^[^\s@]+@[^\s@]+\.[^\s@]+$/ on the address trimmed and lower-cased: no
\* white space, one @ with something before it, and after it a dot with
\* something on either side
validateEmail(v) ==
    LET s == ToLowerCase(Trim(v))
    IN  /\ s # << >>
        /\ \A i \in 1..Len(s) : s[i] \notin WhiteSpace
        /\ Cardinality({i \in 1..Len(s) : s[i] = "@"}) = 1
        /\ LET a == CHOOSE i \in 1..Len(s) : s[i] = "@"
           IN  /\ a > 1
               /\ \E d \in (a + 2)..(Len(s) - 1) : s[d] = "."

(***************************** bounds **************************************)

\* uid() is modelled as a counter: MaxUid identifiers (events and
\* registrations together) are handed out in a behaviour.
MaxUid == 3

\* Date.now() takes the values 0..MaxNow.
MaxNow == 1

\* One render of App handles at most MaxCalls Register submissions.
MaxCalls == 2

\* Where the modal is studied, the admin keeps at most MaxEvents events
\* published.
MaxEvents == 1

\* Where normalizeNeuronId is studied, it is given every text of at most
\* MaxIdLen characters.
MaxIdLen == 3

(***************************** state ***************************************)

VARIABLES
    events,       \* App: the events list (React state)
    rendered,     \* what the handlers of the last render of App closed over,
                  \* and the number of Register submissions they have handled
    route,        \* App: [name |-> "home" | "event", id]
    admin,        \* App: the admin session flag
    modalOpen,    \* App: create/edit modal shown
    modalMode,    \* App: "create" | "edit"
    editingId,    \* App: id of the event being edited, 0 for null
    regFirst, regLast, regNeuronId,   \* App: the registration form
    regMsg,       \* App: message under the registration form
    eventId,      \* EventModal: id of initialEvent, 0 for null
    form,         \* EventModal: the form fields and imageDataUrl
    err,          \* EventModal: the error shown, "" for none
    now,          \* the clock Date.now() reads
    nextUid,      \* the next identifier uid() returns
    subscribers,  \* App: the newsletter addresses (React state)
    newsletterEmail,  \* App: the newsletter field
    download,     \* the file downloadTxt has handed to the browser last
    input,        \* what a function under study is given; the events the
                  \* constructor of App read from localStorage
    result        \* what the function returned, << >> before it is applied

vars == <<events, rendered, route, admin, modalOpen, modalMode, editingId,
          regFirst, regLast, regNeuronId, regMsg, eventId, form, err, now,
          nextUid, subscribers, newsletterEmail, download, input, result>>

appVars == <<events, route, admin, modalOpen, modalMode, editingId,
             regFirst, regLast, regNeuronId, regMsg>>

modalVars == <<eventId, form, err>>

\* what the handlers of events, session and modal leave alone
restVars == <<subscribers, newsletterEmail, download, input, result>>

ADMIN_USERNAME == "admin"

ADMIN_PASSWORD == "adminpassword"

Home == [name |-> "home", id |-> 0]

EventRoute(id) == [name |-> "event", id |-> id]

NoMsg == [type |-> "none", text |-> ""]

\* nothing downloaded yet
NoFile == [filename |-> << >>, content |-> << >>]

MsgCapacityReached ==
    [type |-> "err", text |-> "Prijave su zatvorene (popunjen maksimalan broj igraca)."]

MsgFieldsRequired ==
    [type |-> "err", text |-> "Ime, prezime i Neuron ID su obavezni."]

MsgDuplicate ==
    [type |-> "err", text |-> "Vec si prijavljen s tim Neuron ID-em."]

MsgRegistered == [type |-> "ok", text |-> "Uspjesno si prijavljen."]

MsgNeuronIdRequired ==
    [type |-> "err", text |-> "Za odjavu je potreban Neuron ID."]

MsgNotRegistered ==
    [type |-> "err", text |-> "Provjeri je li Neuron ID ispravan, nisi prijavljen."]

MsgUnregistered == [type |-> "ok", text |-> "Uspjesno si odjavljen."]

(***************************** event records *******************************)

\* {...a, ...b}
Merge(a, b) ==
    [k \in DOMAIN a \cup DOMAIN b |-> IF k \in DOMAIN b THEN b[k] ELSE a[k]]

\* the last of the keys the record has
CoalesceLast(ev, keys, default) ==
    IF \E i \in 1..Len(keys) : keys[i] \in DOMAIN ev
    THEN ev[keys[CHOOSE i \in 1..Len(keys) :
                    /\ keys[i] \in DOMAIN ev
                    /\ \A j \in (i + 1)..Len(keys) : keys[j] \notin DOMAIN ev]]
    ELSE default

\* ev[k1] ?? ev[k2] ?? ... ?? default: the first of the keys the record has.
\* (A key that holds null or undefined is a key the record of the model
\* lacks: ?? passes over both, and nothing else reads a legacy key.)
RECURSIVE Coalesce(_, _, _)
Coalesce(ev, keys, default) ==
    IF keys = << >> THEN default
    ELSE IF Head(keys) \in DOMAIN ev THEN ev[Head(keys)]
    ELSE Coalesce(ev, Tail(keys), default)

normalizeLegacyEventFields(ev) ==
    LET preregFee == Coalesce(ev, <<"preregFee", "preRegistrationFee",
                                    "preRegFee", "fee", "price">>,
                              NumV(IntNum(0)))
        nonRegFee == Coalesce(ev, <<"nonRegFee", "nonRegisteredFee",
                                    "nonRegisteredPlayersFee">>, preregFee)
    IN  Merge(ev,
          [date                |-> Coalesce(ev, <<"date">>, << >>),
           preregFee           |-> preregFee,
           nonRegFee           |-> nonRegFee,
           playerCap           |-> Coalesce(ev, <<"playerCap", "cap">>, StrV(<< >>)),
           swissRounds         |-> Coalesce(ev, <<"swissRounds", "swiss">>, StrV(<< >>)),
           topCut              |-> Coalesce(ev, <<"topCut", "topcut">>, << >>),
           notes               |-> Coalesce(ev, <<"notes", "otherNotes">>, << >>),
           regStartTime        |-> Coalesce(ev, <<"regStartTime",
                                                  "registrationStartTime">>, << >>),
           tournamentStartTime |-> Coalesce(ev, <<"tournamentStartTime",
                                                  "startTime">>, << >>),
           preregStartDate     |-> Coalesce(ev, <<"preregStartDate",
                                                  "preRegStartDate">>, << >>),
           preregEndDate       |-> Coalesce(ev, <<"preregEndDate", "preRegEndDate",
                                                  "preregCancelEndDate">>, << >>)])

\* Array.isArray(ev.registrations) ? ev.registrations : []
RegsOf(ev) == IF "registrations" \in DOMAIN ev THEN ev.registrations ELSE << >>

HasEvent(evs, id) == \E i \in 1..Len(evs) : evs[i].id = id

\* evs.find((e) => e.id === id), for an id the list holds
FindEvent(evs, id) ==
    evs[CHOOSE i \in 1..Len(evs) :
           /\ evs[i].id = id
           /\ \A j \in 1..(i - 1) : evs[j].id # id]

\* full at any cap that is a number, positive or not
CapReachedAnyCap(ev) ==
    LET cap == asIntOrNaN(ev.playerCap)
    IN  IsFinite(cap) /\ Len(RegsOf(ev)) >= IntOf(cap)

\* full only once the count is past the cap
CapReachedPastCap(ev) ==
    LET cap == asIntOrNaN(ev.playerCap)
    IN  IsFinite(cap) /\ IsPositive(cap) /\ Len(RegsOf(ev)) > IntOf(cap)

\* Number.isFinite(cap) && cap > 0 && regs.length >= cap
CapReached(ev) ==
    LET cap == asIntOrNaN(ev.playerCap)
    IN  IsFinite(cap) /\ IsPositive(cap) /\ Len(RegsOf(ev)) >= IntOf(cap)

\* some registration with another identifier
HasOtherNeuronId(regs, nid) ==
    \E i \in 1..Len(regs) : normalizeNeuronId(regs[i].neuronId) # nid

HasNeuronId(regs, nid) ==
    \E i \in 1..Len(regs) : normalizeNeuronId(regs[i].neuronId) = nid

(***************************** state updaters ******************************)

\* the event put in front, whether or not the list holds its id
upsertEventPrepend(prev, next) == <<next>> \o prev

upsertEvent(prev, next) ==
    IF ~HasEvent(prev, next.id) THEN <<next>> \o prev
    ELSE LET idx == CHOOSE i \in 1..Len(prev) :
                       /\ prev[i].id = next.id
                       /\ \A j \in 1..(i - 1) : prev[j].id # next.id
         IN  [prev EXCEPT ![idx] = next]

\* the record createEvent builds from a payload, a fresh id and the time
NewEvent(payload, id, t) ==
    normalizeLegacyEventFields(
        [id                  |-> id,
         title               |-> payload.title,
         date                |-> payload.date,
         location            |-> payload.location,
         preregFee           |-> payload.preregFee,
         nonRegFee           |-> payload.nonRegFee,
         playerCap           |-> payload.playerCap,
         swissRounds         |-> payload.swissRounds,
         topCut              |-> payload.topCut,
         regStartTime        |-> payload.regStartTime,
         tournamentStartTime |-> payload.tournamentStartTime,
         preregStartDate     |-> payload.preregStartDate,
         preregEndDate       |-> payload.preregEndDate,
         description         |-> payload.description,
         notes               |-> payload.notes,
         imageDataUrl        |-> payload.imageDataUrl,
         createdAt           |-> t,
         updatedAt           |-> t,
         registrations       |-> << >>])

createEvent(prev, payload, id, t) == upsertEvent(prev, NewEvent(payload, id, t))

\* the patch merged, updatedAt left as it was
updateEventKeepStamp(prev, id, patch, t) ==
    [i \in 1..Len(prev) |->
        IF prev[i].id = id
        THEN normalizeLegacyEventFields(Merge(prev[i], patch))
        ELSE prev[i]]

updateEvent(prev, id, patch, t) ==
    [i \in 1..Len(prev) |->
        IF prev[i].id = id
        THEN normalizeLegacyEventFields(
                 Merge(Merge(prev[i], patch), [updatedAt |-> t]))
        ELSE prev[i]]

deleteEvent(prev, id) == SelectSeq(prev, LAMBDA e : e.id # id)

\* the registration a call adds
NewRegistration(reg, id, t) ==
    [firstName |-> reg.firstName, lastName |-> reg.lastName,
     neuronId |-> normalizeNeuronId(reg.neuronId), id |-> id, createdAt |-> t]

\* an updater that checks the cap and trusts the caller on duplicates
addRegistrationNoDuplicateCheck(prev, evId, reg, id, t) ==
    [i \in 1..Len(prev) |->
        IF prev[i].id # evId THEN prev[i]
        ELSE LET ne == normalizeLegacyEventFields(prev[i])
             IN  IF CapReached(ne) THEN ne
                 ELSE Merge(ne,
                        [registrations |->
                            <<NewRegistration(reg, id, t)>> \o RegsOf(ne),
                         updatedAt |-> t])]

\* an updater that trusts the checks its caller made on its snapshot
addRegistrationUnguarded(prev, evId, reg, id, t) ==
    [i \in 1..Len(prev) |->
        IF prev[i].id # evId THEN prev[i]
        ELSE LET ne == normalizeLegacyEventFields(prev[i])
             IN  Merge(ne,
                   [registrations |->
                       <<NewRegistration(reg, id, t)>> \o RegsOf(ne),
                    updatedAt |-> t])]

\* an updater that finds no event to write to
addRegistrationNowhere(prev, evId, reg, id, t) == prev

addRegistration(prev, evId, reg, id, t) ==
    [i \in 1..Len(prev) |->
        IF prev[i].id # evId THEN prev[i]
        ELSE LET ne   == normalizeLegacyEventFields(prev[i])
                 regs == RegsOf(ne)
                 nid  == normalizeNeuronId(reg.neuronId)
             IN  IF CapReached(ne) THEN ne
                 ELSE IF HasNeuronId(regs, nid) THEN ne
                 ELSE Merge(ne,
                        [registrations |->
                            <<NewRegistration(reg, id, t)>> \o regs,
                         updatedAt |-> t])]

\* the filter inverted: the matching registrations are the ones kept
keepRegistrationByNeuronId(prev, evId, neuronId, t) ==
    LET nid == normalizeNeuronId(neuronId)
    IN  [i \in 1..Len(prev) |->
            IF prev[i].id # evId THEN prev[i]
            ELSE LET ne == normalizeLegacyEventFields(prev[i])
                 IN  Merge(ne,
                       [registrations |->
                            SelectSeq(RegsOf(ne), LAMBDA r :
                                normalizeNeuronId(r.neuronId) = nid),
                        updatedAt |-> t])]

\* the identifier removed from every event of the list
removeRegistrationEverywhere(prev, evId, neuronId, t) ==
    LET nid == normalizeNeuronId(neuronId)
    IN  [i \in 1..Len(prev) |->
            LET ne == normalizeLegacyEventFields(prev[i])
            IN  Merge(ne,
                  [registrations |->
                       SelectSeq(RegsOf(ne), LAMBDA r :
                           normalizeNeuronId(r.neuronId) # nid),
                   updatedAt |-> t])]

removeRegistrationByNeuronId(prev, evId, neuronId, t) ==
    LET nid == normalizeNeuronId(neuronId)
    IN  [i \in 1..Len(prev) |->
            IF prev[i].id # evId THEN prev[i]
            ELSE LET ne == normalizeLegacyEventFields(prev[i])
                 IN  Merge(ne,
                       [registrations |->
                            SelectSeq(RegsOf(ne), LAMBDA r :
                                normalizeNeuronId(r.neuronId) # nid),
                        updatedAt |-> t])]

(***************************** the event modal *****************************)

FormTextFields ==
    {"title", "date", "location", "preregFee", "nonRegFee", "playerCap",
     "swissRounds", "topCut", "regStartTime", "tournamentStartTime",
     "preregStartDate", "preregEndDate", "description", "notes"}

EmptyForm ==
    [title |-> << >>, date |-> << >>, location |-> << >>,
     preregFee |-> << >>, nonRegFee |-> << >>, playerCap |-> << >>,
     swissRounds |-> << >>, topCut |-> << >>, regStartTime |-> << >>,
     tournamentStartTime |-> << >>, preregStartDate |-> << >>,
     preregEndDate |-> << >>, description |-> << >>, notes |-> << >>,
     imageDataUrl |-> ""]

\* String(n) for a number
NumToText(n) ==
    IF n.nan THEN <<"N", "a", "N">>
    ELSE (IF IsNegative(n) THEN <<"-">> ELSE << >>)
         \o NatToText(n.int)
         \o (IF n.frac = << >> THEN << >> ELSE <<".">> \o n.frac)

\* v === 0 || v ? String(v) : ""
TextOrEmpty(v) ==
    IF v.t = "str" THEN v.s
    ELSE IF v.n.nan THEN << >> ELSE NumToText(v.n)

\* the initialEvent prop: no element for null
InitialEvent(evs, mode, id) ==
    IF mode = "edit" /\ HasEvent(evs, id)
    THEN <<normalizeLegacyEventFields(FindEvent(evs, id))>>
    ELSE << >>

\* the fields the modal's effect sets from initialEvent
FormOf(init) ==
    IF init = << >> THEN EmptyForm
    ELSE LET e == init[1]
         IN  [title               |-> e.title,
              date                |-> e.date,
              location            |-> e.location,
              preregFee           |-> TextOrEmpty(e.preregFee),
              nonRegFee           |-> TextOrEmpty(e.nonRegFee),
              playerCap           |-> TextOrEmpty(e.playerCap),
              swissRounds         |-> TextOrEmpty(e.swissRounds),
              topCut              |-> e.topCut,
              regStartTime        |-> e.regStartTime,
              tournamentStartTime |-> e.tournamentStartTime,
              preregStartDate     |-> e.preregStartDate,
              preregEndDate       |-> e.preregEndDate,
              description         |-> e.description,
              notes               |-> e.notes,
              imageDataUrl        |-> e.imageDataUrl]

\* The effect of EventModal, deps [open, initialEvent], after a render of
\* App: initialEvent is a new object at every render when the event
\* exists, so the effect then runs again. <<eventId, form, err>> after it.
ModalEffect(open0, init0, open1, init1) ==
    IF open1 /\ (~open0 \/ init1 # << >> \/ init0 # << >>)
    THEN <<IF init1 = << >> THEN 0 ELSE init1[1].id, FormOf(init1), "">>
    ELSE <<eventId, form, err>>

ErrImage == "Slika je obavezna."
ErrTitle == "Naziv dogadaja je obavezan."
ErrDateRequired == "Datum dogadaja je obavezan."
ErrDateInvalid == "Datum nije ispravan. Primjeri: 01/03/26, 01.03.2026., 1/3/26"
ErrLocation == "Mjesto dogadaja je obavezno."
ErrPreregFeeRequired == "PreRegistration Fee je obavezan."
ErrNonRegFeeRequired == "Non registered players Fee je obavezan."
ErrPlayerCapRequired == "Player Cap je obavezan."
ErrSwissRequired == "Swiss rounds je obavezan."
ErrTopCut == "TopCut je obavezan."
ErrRegStartRequired == "Vrijeme Pocetak prijava je obavezno."
ErrRegStartInvalid == "Vrijeme Pocetak prijava mora biti HH:MM (npr. 09:30)."
ErrTournamentStartRequired == "Vrijeme Pocetak turnira je obavezno."
ErrTournamentStartInvalid == "Vrijeme Pocetak turnira mora biti HH:MM (npr. 10:00)."
ErrPreStartRequired == "Datum Pocetak pretprijava je obavezan."
ErrPreStartInvalid == "Datum Pocetak pretprijava nije ispravan (npr. 01/03/26)."
ErrPreEndRequired == "Datum Zavrsetak pretprijava/odjava je obavezan."
ErrPreEndInvalid == "Datum Zavrsetak pretprijava/odjava nije ispravan (npr. 09/03/26)."
ErrPreregFeeNumber == "PreRegistration Fee mora biti broj (0 ili vise)."
ErrNonRegFeeNumber == "Non registered players Fee mora biti broj (0 ili vise)."
ErrPlayerCapNumber == "Player Cap mora biti cijeli broj (1 ili vise)."
ErrSwissNumber == "Swiss rounds mora biti cijeli broj (1 ili vise)."
ErrNotImage == "Odaberi sliku (image/*)."
ErrImageTooLarge == "Slika je prevelika (max 3MB)."

\* what submit passes to setErr: the first failed check, "" when all pass
submitError(f) ==
    LET dt == sanitizeText(f.date)
    IN  IF f.imageDataUrl = "" THEN ErrImage
        ELSE IF Trim(f.title) = << >> THEN ErrTitle
        ELSE IF dt = << >> THEN ErrDateRequired
        ELSE IF normalizeDateInput(dt) = << >> THEN ErrDateInvalid
        ELSE IF Trim(f.location) = << >> THEN ErrLocation
        ELSE IF f.preregFee = << >> THEN ErrPreregFeeRequired
        ELSE IF f.nonRegFee = << >> THEN ErrNonRegFeeRequired
        ELSE IF f.playerCap = << >> THEN ErrPlayerCapRequired
        ELSE IF f.swissRounds = << >> THEN ErrSwissRequired
        ELSE IF f.topCut = << >> THEN ErrTopCut
        ELSE IF f.regStartTime = << >> THEN ErrRegStartRequired
        ELSE IF ~isValidTimeHHMM(f.regStartTime) THEN ErrRegStartInvalid
        ELSE IF f.tournamentStartTime = << >> THEN ErrTournamentStartRequired
        ELSE IF ~isValidTimeHHMM(f.tournamentStartTime) THEN ErrTournamentStartInvalid
        ELSE IF f.preregStartDate = << >> THEN ErrPreStartRequired
        ELSE IF normalizeDateInput(f.preregStartDate) = << >> THEN ErrPreStartInvalid
        ELSE IF f.preregEndDate = << >> THEN ErrPreEndRequired
        ELSE IF normalizeDateInput(f.preregEndDate) = << >> THEN ErrPreEndInvalid
        ELSE IF JsNumber(f.preregFee).nan \/ IsNegative(JsNumber(f.preregFee))
             THEN ErrPreregFeeNumber
        ELSE IF JsNumber(f.nonRegFee).nan \/ IsNegative(JsNumber(f.nonRegFee))
             THEN ErrNonRegFeeNumber
        ELSE IF ~IsFinite(asIntOrNaN(StrV(f.playerCap)))
                \/ ~IsPositive(asIntOrNaN(StrV(f.playerCap)))
             THEN ErrPlayerCapNumber
        ELSE IF ~IsFinite(asIntOrNaN(StrV(f.swissRounds)))
                \/ ~IsPositive(asIntOrNaN(StrV(f.swissRounds)))
             THEN ErrSwissNumber
        ELSE IF sanitizeText(f.topCut) = << >> THEN ErrTopCut
        ELSE ""

\* the payload submit builds once every check has passed
submitPayload(f) ==
    [title               |-> Trim(f.title),
     date                |-> normalizeDateInput(sanitizeText(f.date)),
     location            |-> Trim(f.location),
     preregFee           |-> NumV(JsNumber(f.preregFee)),
     nonRegFee           |-> NumV(JsNumber(f.nonRegFee)),
     playerCap           |-> NumV(asIntOrNaN(StrV(f.playerCap))),
     swissRounds         |-> NumV(asIntOrNaN(StrV(f.swissRounds))),
     topCut              |-> sanitizeText(f.topCut),
     regStartTime        |-> sanitizeText(f.regStartTime),
     tournamentStartTime |-> sanitizeText(f.tournamentStartTime),
     preregStartDate     |-> normalizeDateInput(f.preregStartDate),
     preregEndDate       |-> normalizeDateInput(f.preregEndDate),
     description         |-> Trim(f.description),
     notes               |-> Trim(f.notes),
     imageDataUrl        |-> f.imageDataUrl]

(***************************** inputs **************************************)

BaseDraft ==
    [title               |-> <<"C", "u", "p">>,
     date                |-> <<"0", "1", "/", "0", "3", "/", "2", "6">>,
     location            |-> <<"Z", "g">>,
     preregFee           |-> <<"1", "0">>,
     nonRegFee           |-> <<"1", "2", ".", "5">>,
     playerCap           |-> <<"2">>,
     swissRounds         |-> <<"3">>,
     topCut              |-> <<"T", "o", "p", " ", "8">>,
     regStartTime        |-> <<"0", "9", ":", "3", "0">>,
     tournamentStartTime |-> <<"1", "0", ":", "0", "0">>,
     preregStartDate     |-> <<"0", "1", "/", "0", "2", "/", "2", "6">>,
     preregEndDate       |-> <<"0", "9", "/", "0", "2", "/", "2", "6">>,
     description         |-> << >>,
     notes               |-> << >>]

\* the drafts typed where the registration ledger is studied: complete
\* drafts that differ in the player cap
CapDrafts ==
    {[BaseDraft EXCEPT !.playerCap = c] : c \in {<<"1">>, <<"2">>}}

\* a complete draft as an admin types it: padded title, one-digit day and
\* month, dotted and dashed dates, a fee with a trailing zero, a fractional
\* cap, a time followed by a space
RawDraft ==
    [title               |-> <<" ", "C", "u", "p">>,
     date                |-> <<"1", "/", "3", "/", "2", "6">>,
     location            |-> <<"Z", "g", " ">>,
     preregFee           |-> <<"1", "0">>,
     nonRegFee           |-> <<"1", "2", ".", "5", "0">>,
     playerCap           |-> <<"2", ".", "7">>,
     swissRounds         |-> <<"3">>,
     topCut              |-> <<"T", "o", "p", "\n", "8">>,
     regStartTime        |-> <<"0", "9", ":", "3", "0", " ">>,
     tournamentStartTime |-> <<"1", "0", ":", "0", "0">>,
     preregStartDate     |-> <<"0", "1", ".", "0", "2", ".", "2", "0", "2", "6", ".">>,
     preregEndDate       |-> <<"2", "9", "-", "0", "2", "-", "2", "4">>,
     description         |-> <<" ", "d">>,
     notes               |-> << >>]

\* For each check of submit after the one of the image, a value of one
\* field that fails it and passes the checks before it.
Violations ==
    <<[field |-> "title",               value |-> <<" ">>],
      [field |-> "date",                value |-> <<"\n">>],
      [field |-> "date",                value |-> <<"3", "1", "/", "0", "2", "/", "2", "6">>],
      [field |-> "location",            value |-> << >>],
      [field |-> "preregFee",           value |-> << >>],
      [field |-> "nonRegFee",           value |-> << >>],
      [field |-> "playerCap",           value |-> << >>],
      [field |-> "swissRounds",         value |-> << >>],
      [field |-> "topCut",              value |-> << >>],
      [field |-> "regStartTime",        value |-> << >>],
      [field |-> "regStartTime",        value |-> <<"2", "4", ":", "0", "0">>],
      [field |-> "tournamentStartTime", value |-> << >>],
      [field |-> "tournamentStartTime", value |-> <<"9", ":", "3", "0">>],
      [field |-> "preregStartDate",     value |-> << >>],
      [field |-> "preregStartDate",     value |-> <<"2", "9", "/", "0", "2", "/", "2", "3">>],
      [field |-> "preregEndDate",       value |-> << >>],
      [field |-> "preregEndDate",       value |-> <<"1", "/", "1", "3", "/", "2", "6">>],
      [field |-> "preregFee",           value |-> <<"-", "1">>],
      [field |-> "nonRegFee",           value |-> <<"1", "0", "e">>],
      [field |-> "playerCap",           value |-> <<"0">>],
      [field |-> "swissRounds",         value |-> <<"0", ".", "5">>],
      [field |-> "topCut",              value |-> <<" ">>]>>

\* the draft that fails check k alone
OneViolation(k) ==
    [RawDraft EXCEPT ![Violations[k].field] = Violations[k].value]

\* the draft that fails check k and every later check a value was named
\* for, each field taking the value of the first of them that names it
ViolationsFrom(k) ==
    [f \in DOMAIN RawDraft |->
        IF \E j \in k..Len(Violations) : Violations[j].field = f
        THEN Violations[CHOOSE j \in k..Len(Violations) :
                           /\ Violations[j].field = f
                           /\ \A i \in k..(j - 1) : Violations[i].field # f].value
        ELSE RawDraft[f]]

\* other values of playerCap that no check may let through, and one fee
\* that Number() reads as 0
CapValues == {<<"-", "3">>, <<"a">>, <<"-", "0", ".", "5">>, <<" ">>}

\* the drafts typed where the modal is studied
ModalDrafts ==
    {RawDraft, [RawDraft EXCEPT !.preregFee = <<" ">>]}
    \cup {OneViolation(k) : k \in 1..Len(Violations)}
    \cup {ViolationsFrom(k) : k \in 1..Len(Violations)}
    \cup {[RawDraft EXCEPT !.playerCap = c] : c \in CapValues}

GoodFile == [image |-> TRUE, size |-> 1024]

\* the files handed to the image picker
ImageFiles ==
    {GoodFile,
     [image |-> FALSE, size |-> 1024],
     [image |-> TRUE,  size |-> 3 * 1024 * 1024 + 1]}

Credentials == {<<"admin", "adminpassword">>, <<"admin", "admin">>}

Registrant(first, last, nid) ==
    [regFirst |-> first, regLast |-> last, regNeuronId |-> nid]

\* what visitors type into the registration form; the first two
\* identifiers differ in case and white space only
Registrants ==
    {Registrant(<<"A", "n", "a", " ">>, <<"B">>, <<"A", "1">>),
     Registrant(<<"A", "n", "a", " ">>, <<"B">>, <<"a", " ", "1", "\n">>),
     Registrant(<<"I", "v", "o">>, <<"C">>, <<"b", "2">>)}

(***************************** actions *************************************)

\* what the handlers of a render close over
Snapshot(evs, rt, first, last, nid) ==
    [events |-> evs, route |-> rt, regFirst |-> first, regLast |-> last,
     regNeuronId |-> nid, registerCalls |-> 0]

\* A render of App with the state the step leaves: the handlers close over
\* it and the modal's effect runs.
RenderApp ==
    LET m == ModalEffect(modalOpen,
                         InitialEvent(rendered.events, modalMode, editingId),
                         modalOpen',
                         InitialEvent(events', modalMode', editingId'))
    IN  /\ rendered' = Snapshot(events', route', regFirst', regLast', regNeuronId')
        /\ eventId' = m[1]
        /\ form' = m[2]
        /\ err' = m[3]

\* EventModal keeps eventId, its fields and err while it is closed, and its
\* effect overwrites every one of them as it opens: no handler reads what a
\* closed modal holds. The model clears them as the modal closes.
ModalCleared ==
    /\ eventId' = 0
    /\ form' = EmptyForm
    /\ err' = ""

\* a render of App with nothing else changed (a toast timing out, the
\* queued state updates being flushed)
Render ==
    /\ UNCHANGED restVars
    /\ UNCHANGED <<appVars, now, nextUid>>
    /\ RenderApp

Tick ==
    /\ UNCHANGED restVars
    /\ now < MaxNow
    /\ now' = now + 1
    /\ UNCHANGED <<appVars, modalVars, rendered, nextUid>>

handleAdminLogin ==
    /\ UNCHANGED restVars
    /\ ~admin
    /\ \E c \in Credentials :
          admin' = (c[1] = ADMIN_USERNAME /\ c[2] = ADMIN_PASSWORD)
    /\ UNCHANGED <<events, route, modalOpen, modalMode, editingId,
                   regFirst, regLast, regNeuronId, regMsg, now, nextUid>>
    /\ RenderApp

handleAdminLogout ==
    /\ UNCHANGED restVars
    /\ admin
    /\ admin' = FALSE
    /\ UNCHANGED <<events, route, modalOpen, modalMode, editingId,
                   regFirst, regLast, regNeuronId, regMsg, now, nextUid>>
    /\ RenderApp

openCreate ==
    /\ UNCHANGED restVars
    /\ admin
    /\ modalMode' = "create"
    /\ editingId' = 0
    /\ modalOpen' = TRUE
    /\ UNCHANGED <<events, route, admin, regFirst, regLast, regNeuronId,
                   regMsg, now, nextUid>>
    /\ RenderApp

\* the ids of the events whose Edit button the last render shows
Editable ==
    IF rendered.route.name = "home"
    THEN {rendered.events[i].id : i \in 1..Len(rendered.events)}
    ELSE {id \in {rendered.route.id} : HasEvent(rendered.events, id)}

openEdit ==
    /\ UNCHANGED restVars
    /\ admin
    /\ \E id \in Editable : editingId' = id
    /\ modalMode' = "edit"
    /\ modalOpen' = TRUE
    /\ UNCHANGED <<events, route, admin, regFirst, regLast, regNeuronId,
                   regMsg, now, nextUid>>
    /\ RenderApp

\* Close / Cancel
onClose ==
    /\ UNCHANGED restVars
    /\ modalOpen
    /\ modalOpen' = FALSE
    /\ rendered' = Snapshot(events, route, regFirst, regLast, regNeuronId)
    /\ ModalCleared
    /\ UNCHANGED <<events, route, admin, modalMode, editingId, regFirst,
                   regLast, regNeuronId, regMsg, now, nextUid>>

\* the user fills the text fields of the modal with a draft of D
TypeForm(D) ==
    /\ UNCHANGED restVars
    /\ modalOpen
    /\ \E d \in D : form' = Merge(form, d)
    /\ UNCHANGED <<appVars, rendered, eventId, err, now, nextUid>>

\* the user hands a file of F to the image picker
pickImage(F) ==
    /\ UNCHANGED restVars
    /\ modalOpen
    /\ \E file \in F :
          IF ~file.image
          THEN err' = ErrNotImage /\ form' = form
          ELSE IF file.size > 3 * 1024 * 1024
          THEN err' = ErrImageTooLarge /\ form' = form
          ELSE err' = "" /\ form' = [form EXCEPT !.imageDataUrl = "data:image"]
    /\ UNCHANGED <<appVars, rendered, eventId, now, nextUid>>

\* the modal closes on a store the handler has written: App renders
ModalClosed ==
    /\ modalOpen' = FALSE
    /\ ModalCleared
    /\ rendered' = Snapshot(events', route', regFirst, regLast, regNeuronId)

\* Save / Publish
submit ==
    /\ UNCHANGED restVars
    /\ modalOpen
    /\ LET e == submitError(form)
       IN  IF e # ""
           THEN /\ err' = e
                /\ UNCHANGED <<appVars, rendered, nextUid, eventId, form>>
           ELSE IF modalMode = "edit"
           THEN IF editingId = 0
                THEN /\ err' = ""
                     /\ UNCHANGED <<appVars, rendered, nextUid, eventId, form>>
                ELSE /\ events' = updateEvent(events, editingId,
                                              submitPayload(form), now)
                     /\ UNCHANGED <<route, admin, modalMode, editingId,
                                    regFirst, regLast, regNeuronId,
                                    regMsg, nextUid>>
                     /\ ModalClosed
           ELSE /\ nextUid <= MaxUid
                /\ events' = createEvent(events, submitPayload(form),
                                         nextUid, now)
                /\ nextUid' = nextUid + 1
                /\ UNCHANGED <<route, admin, modalMode, editingId,
                               regFirst, regLast, regNeuronId, regMsg>>
                /\ ModalClosed
    /\ UNCHANGED now

\* Delete, in the edit modal; ok is the answer to window.confirm
onDelete ==
    /\ UNCHANGED restVars
    /\ modalOpen
    /\ modalMode = "edit"
    /\ \E ok \in BOOLEAN :
          IF ~ok \/ eventId = 0
          THEN UNCHANGED <<appVars, rendered, modalVars>>
          ELSE /\ events' = deleteEvent(events, eventId)
               /\ UNCHANGED <<admin, modalMode, editingId, regFirst, regLast,
                              regNeuronId>>
               /\ IF route = EventRoute(eventId)
                  THEN \* the hash changes and onHash runs
                       route' = Home /\ regMsg' = NoMsg
                  ELSE UNCHANGED <<route, regMsg>>
               /\ ModalClosed
    /\ UNCHANGED <<now, nextUid>>

\* a click on the card of an event
openEvent ==
    /\ UNCHANGED restVars
    /\ rendered.route.name = "home"
    /\ \E i \in 1..Len(rendered.events) :
          route' = EventRoute(rendered.events[i].id)
    /\ regMsg' = NoMsg
    /\ UNCHANGED <<events, admin, modalOpen, modalMode, editingId, regFirst,
                   regLast, regNeuronId, now, nextUid>>
    /\ RenderApp

\* Back
goHome ==
    /\ UNCHANGED restVars
    /\ rendered.route.name = "event"
    /\ route' = Home
    /\ regMsg' = NoMsg
    /\ UNCHANGED <<events, admin, modalOpen, modalMode, editingId, regFirst,
                   regLast, regNeuronId, now, nextUid>>
    /\ RenderApp

\* the event page shows the registration form when currentEvent exists
RegFormShown ==
    /\ rendered.route.name = "event"
    /\ HasEvent(rendered.events, rendered.route.id)

\* the visitor types a first name, a last name and an identifier of R:
\* setRegFirst, setRegLast and setRegNeuronId, and App renders
setRegFields(R) ==
    /\ UNCHANGED restVars
    /\ RegFormShown
    /\ \E r \in R :
          /\ regFirst' = r.regFirst
          /\ regLast' = r.regLast
          /\ regNeuronId' = r.regNeuronId
    /\ UNCHANGED <<events, route, admin, modalOpen, modalMode, editingId,
                   regMsg, now, nextUid>>
    /\ RenderApp

\* currentEvent of the last render, normalised
CurrentEvent ==
    normalizeLegacyEventFields(FindEvent(rendered.events, rendered.route.id))

\* Register, the fields looked at before the cap
submitRegistrationFieldsFirst ==
    /\ UNCHANGED restVars
    /\ rendered.route.name = "event"
    /\ rendered.registerCalls < MaxCalls
    /\ rendered' = [rendered EXCEPT !.registerCalls = @ + 1]
    /\ IF ~HasEvent(rendered.events, rendered.route.id)
       THEN /\ regMsg' = NoMsg
            /\ UNCHANGED <<events, regFirst, regLast, regNeuronId, nextUid>>
       ELSE LET ev   == CurrentEvent
                fn   == Trim(rendered.regFirst)
                ln   == Trim(rendered.regLast)
                nid  == normalizeNeuronId(rendered.regNeuronId)
            IN  IF fn = << >> \/ ln = << >> \/ nid = << >>
                THEN /\ regMsg' = MsgFieldsRequired
                     /\ UNCHANGED <<events, regFirst, regLast, regNeuronId, nextUid>>
                ELSE IF CapReached(ev)
                THEN /\ regMsg' = MsgCapacityReached
                     /\ UNCHANGED <<events, regFirst, regLast, regNeuronId, nextUid>>
                ELSE IF HasNeuronId(RegsOf(ev), nid)
                THEN /\ regMsg' = MsgDuplicate
                     /\ UNCHANGED <<events, regFirst, regLast, regNeuronId, nextUid>>
                ELSE /\ nextUid <= MaxUid
                     /\ events' = addRegistration(events, ev.id,
                                      [firstName |-> fn, lastName |-> ln,
                                       neuronId |-> nid], nextUid, now)
                     /\ nextUid' = IF events' = events THEN nextUid
                                   ELSE nextUid + 1
                     /\ regMsg' = MsgRegistered
                     /\ regFirst' = << >>
                     /\ regLast' = << >>
                     /\ regNeuronId' = << >>
    /\ UNCHANGED <<route, admin, modalOpen, modalMode, editingId,
                   modalVars, now>>

\* Register. (The button is disabled while the rendered event is full; the
\* handler makes its own check, and it is the handler that is called.)
submitRegistration ==
    /\ UNCHANGED restVars
    /\ rendered.route.name = "event"
    /\ rendered.registerCalls < MaxCalls
    /\ rendered' = [rendered EXCEPT !.registerCalls = @ + 1]
    /\ IF ~HasEvent(rendered.events, rendered.route.id)
       THEN /\ regMsg' = NoMsg
            /\ UNCHANGED <<events, regFirst, regLast, regNeuronId, nextUid>>
       ELSE LET ev   == CurrentEvent
                fn   == Trim(rendered.regFirst)
                ln   == Trim(rendered.regLast)
                nid  == normalizeNeuronId(rendered.regNeuronId)
            IN  IF CapReached(ev)
                THEN /\ regMsg' = MsgCapacityReached
                     /\ UNCHANGED <<events, regFirst, regLast, regNeuronId, nextUid>>
                ELSE IF fn = << >> \/ ln = << >> \/ nid = << >>
                THEN /\ regMsg' = MsgFieldsRequired
                     /\ UNCHANGED <<events, regFirst, regLast, regNeuronId, nextUid>>
                ELSE IF HasNeuronId(RegsOf(ev), nid)
                THEN /\ regMsg' = MsgDuplicate
                     /\ UNCHANGED <<events, regFirst, regLast, regNeuronId, nextUid>>
                ELSE /\ nextUid <= MaxUid
                     /\ events' = addRegistration(events, ev.id,
                                      [firstName |-> fn, lastName |-> ln,
                                       neuronId |-> nid], nextUid, now)
                     /\ nextUid' = IF events' = events THEN nextUid
                                   ELSE nextUid + 1
                     /\ regMsg' = MsgRegistered
                     /\ regFirst' = << >>
                     /\ regLast' = << >>
                     /\ regNeuronId' = << >>
    /\ UNCHANGED <<route, admin, modalOpen, modalMode, editingId,
                   modalVars, now>>

\* Unregister
submitUnregister ==
    /\ UNCHANGED restVars
    /\ rendered.route.name = "event"
    /\ IF ~HasEvent(rendered.events, rendered.route.id)
       THEN /\ regMsg' = NoMsg
            /\ UNCHANGED <<events, regNeuronId>>
       ELSE LET ev  == CurrentEvent
                nid == normalizeNeuronId(rendered.regNeuronId)
            IN  IF nid = << >>
                THEN /\ regMsg' = MsgNeuronIdRequired
                     /\ UNCHANGED <<events, regNeuronId>>
                ELSE IF ~HasNeuronId(RegsOf(ev), nid)
                THEN /\ regMsg' = MsgNotRegistered
                     /\ UNCHANGED <<events, regNeuronId>>
                ELSE /\ events' = removeRegistrationByNeuronId(events, ev.id,
                                                               nid, now)
                     /\ regMsg' = MsgUnregistered
                     /\ regNeuronId' = << >>
    /\ UNCHANGED <<route, admin, modalOpen, modalMode, editingId, regFirst,
                   regLast, rendered, modalVars, now, nextUid>>

(***************************** specifications ******************************)

\* App as its constructor leaves it, localStorage holding the events evs
\* (migrated, as the initializer of events leaves them) and nothing else
InitApp(evs) ==
    /\ events = evs
    /\ route = Home
    /\ admin = FALSE
    /\ modalOpen = FALSE
    /\ modalMode = "create"
    /\ editingId = 0
    /\ regFirst = << >>
    /\ regLast = << >>
    /\ regNeuronId = << >>
    /\ regMsg = NoMsg
    /\ eventId = 0
    /\ form = EmptyForm
    /\ err = ""
    /\ now = 0
    /\ nextUid = 1
    /\ rendered = Snapshot(evs, Home, << >>, << >>, << >>)
    /\ subscribers = << >>
    /\ newsletterEmail = << >>
    /\ download = NoFile

Init ==
    /\ InitApp(<< >>)
    /\ input = << >>
    /\ result = << >>

\* The registration ledger: an admin publishes, edits and deletes events
\* from the home page, and visitors register and unregister while the
\* modal (role="dialog" aria-modal="true") is closed.
Next ==
    \/ Render
    \/ handleAdminLogin
    \/ (~modalOpen /\ route = Home /\ openCreate)
    \/ (~modalOpen /\ route = Home /\ openEdit)
    \/ onClose
    \/ TypeForm(CapDrafts)
    \/ pickImage({GoodFile})
    \/ submit
    \/ onDelete
    \/ (~modalOpen /\ openEvent)
    \/ (~modalOpen /\ goHome)
    \/ (~modalOpen /\ setRegFields(Registrants))
    \/ (~modalOpen /\ submitRegistration)
    \/ (~modalOpen /\ submitUnregister)

Spec == Init /\ [][Next]_vars

\* The ledger against a running clock: one admin publishes events of a
\* cap of 2, visitors register and unregister, and time passes.
NextClock ==
    \/ Render
    \/ Tick
    \/ handleAdminLogin
    \/ (~modalOpen /\ route = Home /\ openCreate)
    \/ TypeForm({BaseDraft})
    \/ pickImage({GoodFile})
    \/ submit
    \/ (~modalOpen /\ openEvent)
    \/ (~modalOpen /\ setRegFields(Registrants))
    \/ (~modalOpen /\ submitRegistration)
    \/ (~modalOpen /\ submitUnregister)

SpecClock == Init /\ [][NextClock]_vars

\* The event modal: an admin logs in and out, opens the modal to create or
\* edit, types a draft into the form as the modal opened it or as a picked
\* file left it, picks a file, submits, deletes, cancels.
NextModal ==
    \/ handleAdminLogin
    \/ (~modalOpen /\ handleAdminLogout)
    \/ (~modalOpen /\ Len(events) < MaxEvents /\ openCreate)
    \/ (~modalOpen /\ openEdit)
    \/ onClose
    \/ (err = "" /\ TypeForm(ModalDrafts))
    \/ pickImage(ImageFiles)
    \/ submit
    \/ onDelete

SpecModal == Init /\ [][NextModal]_vars

(***************************** the date parser, applied ********************)

\* what the functions under study leave alone
programVars == <<appVars, modalVars, rendered, now, nextUid, subscribers,
                 newsletterEmail, download>>

\* a date as it is typed: the three parts, and the text they make with the
\* separators s1 and s2 and what follows the year
DateText(dd, mm, yy, s1, s2, tail) ==
    [dd |-> dd, mm |-> mm, yy |-> yy,
     text |-> dd \o s1 \o mm \o s2 \o yy \o tail]

\* the years whose dates are spelled
Years == {2000, 2023, 2024, 2026, 2099}

\* The text parsed is a spelling of a day of a year of Years (or of a day
\* no month has, the 31st of February): with or without leading zeros, any
\* two of the separators the comment of parseDateFlexible names, the year
\* in 2 or 4 digits, with or without a trailing dot. Or it is three parts
\* of digits joined by slashes: days and months in and out of range and
\* written with a zero too many, years of 1 to 5 digits.
InitDate ==
    /\ InitApp(<< >>)
    /\ result = << >>
    /\ \/ \E d \in 1..31, m \in 1..12, y \in Years,
             pad \in BOOLEAN, long \in BOOLEAN, dot \in BOOLEAN,
             s1 \in {<<"/">>, <<".">>, <<"-">>, <<" ">>},
             s2 \in {<<"/">>, <<".">>, <<"-">>, <<" ">>} :
              input = DateText(
                  IF pad THEN PadStart2(NatToText(d)) ELSE NatToText(d),
                  IF pad THEN PadStart2(NatToText(m)) ELSE NatToText(m),
                  IF long THEN NatToText(y)
                  ELSE PadStart2(NatToText(y % 100)),
                  s1, s2, IF dot THEN <<".">> ELSE << >>)
       \/ \E dd \in {<<"0">>, <<"1">>, <<"9">>, <<"2", "8">>, <<"2", "9">>,
                     <<"3", "0">>, <<"3", "1">>, <<"3", "2">>,
                     <<"0", "3", "1">>, <<"0", "0">>},
             mm \in {<<"0">>, <<"1">>, <<"2">>, <<"0", "2">>, <<"4">>,
                     <<"1", "2">>, <<"1", "3">>},
             yy \in {<<"6">>, <<"0", "0">>, <<"2", "3">>, <<"2", "4">>,
                     <<"2", "0", "2", "3">>, <<"2", "0", "2", "4">>,
                     <<"1", "9", "0", "0">>, <<"2", "1", "0", "0">>,
                     <<"1", "2", "3">>, <<"0", "2", "4">>,
                     <<"2", "0", "2", "4", "5">>} :
              input = DateText(dd, mm, yy, <<"/">>, <<"/">>, << >>)

\* parseDateFlexible, applied to the text typed
ParseTyped ==
    /\ result = << >>
    /\ result' = <<parseDateFlexible(input.text)>>
    /\ UNCHANGED <<programVars, input>>

\* parseDateFlexible, applied to the norm it returned
ParseNorm ==
    /\ Len(result) = 1
    /\ result[1].ok
    /\ result' = Append(result, parseDateFlexible(result[1].norm))
    /\ UNCHANGED <<programVars, input>>

NextDate == ParseTyped \/ ParseNorm

SpecDate == InitDate /\ [][NextDate]_vars

(***************************** a stored list, edited ***********************)

\* what localStorage holds after an earlier session: two events published
\* from the canonical draft, the older one with two registrations
StoredEvents ==
    LET f == [Merge(EmptyForm, BaseDraft) EXCEPT !.imageDataUrl = "data:image"]
        g == [f EXCEPT !.title = <<"O", "p", "e", "n">>]
        r1 == NewRegistration([firstName |-> <<"A", "n", "\r", "\n", "a">>,
                               lastName  |-> <<"B">>,
                               neuronId  |-> <<"A", "1">>], 201, 0)
        r2 == NewRegistration([firstName |-> <<"I", "v", "o">>,
                               lastName  |-> <<"C", "-", "D">>,
                               neuronId  |-> <<"b", "2">>], 202, 0)
    IN  <<NewEvent(submitPayload(g), 102, 0),
          Merge(NewEvent(submitPayload(f), 101, 0),
                [registrations |-> <<r2, r1>>])>>

InitStored ==
    /\ InitApp(StoredEvents)
    /\ input = StoredEvents
    /\ result = << >>

\* the drafts typed into the edit modal: the canonical draft with a start
\* of registration that is valid, valid once stripped, or invalid, one with
\* an invalid start of the tournament, and one with other fields changed
TimeDrafts ==
    {[BaseDraft EXCEPT !.regStartTime = t] :
        t \in {<<"2", "3", ":", "5", "9">>,
               <<"0", "9", ":", "3", "0", " ">>,
               <<"\n", "0", "0", ":", "0", "0">>,
               <<"2", "4", ":", "0", "0">>,
               <<"9", ":", "3", "0">>,
               <<"1", "2", ":", "6", "0">>,
               <<"0", "9", ":", "3", "0", ":", "0", "0">>,
               <<"0", "9", ".", "3", "0">>,
               <<"0", "9", " ", ":", "3", "0">>,
               <<" ">>}}
    \cup {[BaseDraft EXCEPT !.tournamentStartTime = <<"2", "3", ":", "6", "0">>],
          [BaseDraft EXCEPT !.title = <<"C", "u", "p", " ", "2">>,
                            !.playerCap = <<"1", "6">>,
                            !.notes = <<"n">>]}

\* An admin edits the events of a stored list while time passes.
NextEdit ==
    \/ Tick
    \/ handleAdminLogin
    \/ (~modalOpen /\ openEdit)
    \/ onClose
    \/ TypeForm(TimeDrafts)
    \/ submit

SpecEdit == InitStored /\ [][NextEdit]_vars

(***************************** the identifier, normalised ******************)

\* every text of at most MaxIdLen characters, of letters of both cases, a
\* digit and white space of four kinds
InitId ==
    /\ InitApp(<< >>)
    /\ \E n \in 0..MaxIdLen :
          input \in [1..n -> {"a", "B", "z", "1", " ", "\n", "\r", "\t"}]
    /\ result = << >>

\* normalizeNeuronId, applied to the text typed
NormalizeTyped ==
    /\ result = << >>
    /\ result' = <<normalizeNeuronId(input)>>
    /\ UNCHANGED <<programVars, input>>

\* normalizeNeuronId, applied to what it returned
NormalizeAgain ==
    /\ Len(result) = 1
    /\ result' = Append(result, normalizeNeuronId(result[1]))
    /\ UNCHANGED <<programVars, input>>

NextId == NormalizeTyped \/ NormalizeAgain

SpecId == InitId /\ [][NextId]_vars

(***************************** the registrants, exported *******************)

\* v ? v : dash, the dash of the source (U+2014) written "--"
formatDateLabel(v) == IF v = << >> THEN <<"--">> ELSE v

\* lines.join("\n")
RECURSIVE JoinLines(_)
JoinLines(lines) ==
    IF lines = << >> THEN << >>
    ELSE IF Len(lines) = 1 THEN lines[1]
    ELSE lines[1] \o <<"\n">> \o JoinLines(Tail(lines))

\* the lines written with the names as they are stored
exportContentUnsanitized(event) ==
    LET regs   == RegsOf(event)
        lines  == [i \in 1..Len(regs) |->
                      LET r == regs[Len(regs) + 1 - i]
                      IN  r.firstName \o <<"-">> \o r.lastName
                          \o <<"-">> \o r.neuronId]
        header == event.title \o <<" ", "|", " ">>
                  \o formatDateLabel(event.date)
                  \o <<" ", "|", " ">> \o event.location \o <<"\n">>
    IN  header \o JoinLines(lines)
        \o (IF Len(lines) > 0 THEN <<"\n">> ELSE << >>)

\* the text exportRegistrationsTxt writes for a normalised event
exportContent(event) ==
    LET regs   == RegsOf(event)
        lines  == [i \in 1..Len(regs) |->
                      LET r == regs[Len(regs) + 1 - i]
                      IN  sanitizeText(r.firstName) \o <<"-">>
                          \o sanitizeText(r.lastName) \o <<"-">>
                          \o sanitizeText(r.neuronId)]
        header == sanitizeText(event.title) \o <<" ", "|", " ">>
                  \o formatDateLabel(event.date)
                  \o <<" ", "|", " ">> \o sanitizeText(event.location)
                  \o <<"\n">>
    IN  header \o JoinLines(lines)
        \o (IF Len(lines) > 0 THEN <<"\n">> ELSE << >>)

\* Export .txt, in the panel the event page shows to an admin. (The button
\* is disabled while the event holds no registration; the handler writes
\* the header alone then, and it is the handler that is modelled.)
exportRegistrationsTxt ==
    /\ admin
    /\ RegFormShown
    /\ LET event == CurrentEvent
           title == sanitizeText(event.title)
           kept  == {Lower[i] : i \in 1..26} \cup {Upper[i] : i \in 1..26}
                    \cup {Digits[i] : i \in 1..10} \cup {"-", " ", "_"}
           base  == CollapseRuns(title,
                                 {title[i] : i \in 1..Len(title)} \ kept, "_")
       IN  download' =
             [filename |-> (IF base = << >>
                            THEN <<"t", "u", "r", "n", "i", "r">> ELSE base)
                           \o <<"_", "p", "r", "i", "j", "a", "v", "e",
                                ".", "t", "x", "t">>,
              content  |-> exportContent(event)]
    /\ UNCHANGED <<appVars, modalVars, rendered, now, nextUid, subscribers,
                   newsletterEmail, input, result>>

\* An admin browses a stored list and exports the registrants of its
\* events, while visitors unregister.
NextExport ==
    \/ Render
    \/ handleAdminLogin
    \/ openEvent
    \/ goHome
    \/ setRegFields(Registrants)
    \/ submitUnregister
    \/ exportRegistrationsTxt

SpecExport == InitStored /\ [][NextExport]_vars

(***************************** a stored list, visited **********************)

\* the stored list with room for three in its empty event
InitVisited ==
    /\ InitApp([StoredEvents EXCEPT ![1].playerCap = NumV(IntNum(3))])
    /\ input = << >>
    /\ result = << >>

\* A visitor on the page of a stored event, the full one or the empty
\* one: they type names and identifiers, complete ones and ones with a blank
\* first name, last name or identifier, and register and unregister.
NextReject ==
    \/ openEvent
    \/ setRegFields(
          {Registrant(<<"A", "n", "a">>, <<"B">>, <<"a", " ", "1", "\n">>),
           Registrant(<<"I", "v", "o">>, <<"C">>, <<"b", "2">>),
           Registrant(<<"E", "v", "a">>, <<"D">>, <<"c", "3">>),
           Registrant(<<" ">>, <<"B">>, <<"a", "1">>),
           Registrant(<<"E", "v", "a">>, <<"\n">>, <<"c", "3">>),
           Registrant(<<"E", "v", "a">>, <<"D">>, <<" ", "\t">>)})
    \/ submitRegistration
    \/ submitUnregister

SpecReject == InitVisited /\ [][NextReject]_vars

(***************************** the admin session ***************************)

\* The event lifecycle against the admin session: login, logout, the
\* buttons that open the modal, and the modal. Logout admin is rendered
\* whenever admin is set, and the buttons of the page stay in the document
\* under the overlay of the modal.
NextAdmin ==
    \/ handleAdminLogin
    \/ handleAdminLogout
    \/ openCreate
    \/ openEdit
    \/ onClose
    \/ TypeForm({BaseDraft})
    \/ pickImage({GoodFile})
    \/ submit
    \/ onDelete

SpecAdmin == Init /\ [][NextAdmin]_vars

(***************************** a list of earlier versions ******************)

\* the field names of earlier versions, each with the name it is read
\* into; the fourth is a field that holds a number
LegacyFields ==
    {<<"preRegistrationFee", "preregFee", TRUE>>,
     <<"preRegFee", "preregFee", TRUE>>,
     <<"fee", "preregFee", TRUE>>,
     <<"price", "preregFee", TRUE>>,
     <<"nonRegisteredFee", "nonRegFee", TRUE>>,
     <<"nonRegisteredPlayersFee", "nonRegFee", TRUE>>,
     <<"cap", "playerCap", TRUE>>,
     <<"swiss", "swissRounds", TRUE>>,
     <<"topcut", "topCut", FALSE>>,
     <<"otherNotes", "notes", FALSE>>,
     <<"registrationStartTime", "regStartTime", FALSE>>,
     <<"startTime", "tournamentStartTime", FALSE>>,
     <<"preRegStartDate", "preregStartDate", FALSE>>,
     <<"preRegEndDate", "preregEndDate", FALSE>>,
     <<"preregCancelEndDate", "preregEndDate", FALSE>>}

\* localStorage holds one event written by an earlier version: a field
\* under its old name alone, or under both names with different values; or
\* a cap under the old name (a number, a numeric string, zero, a negative
\* number, no number, blank) or no cap at all, with no registration, one
\* or two. The initializer of events migrates what it reads.
InitLegacy ==
    LET base == [id |-> 101, title |-> <<"O", "l", "d">>, createdAt |-> 0]
        r1   == NewRegistration([firstName |-> <<"A", "n", "a">>,
                                 lastName  |-> <<"B">>,
                                 neuronId  |-> <<"A", "1">>], 201, 0)
        r2   == NewRegistration([firstName |-> <<"I", "v", "o">>,
                                 lastName  |-> <<"C">>,
                                 neuronId  |-> <<"B", "2">>], 202, 0)
    IN  /\ \E raw \in
              {base @@ (f[1] :> (IF f[3] THEN NumV(IntNum(2)) ELSE <<"o">>)) :
                  f \in LegacyFields}
              \cup
              {base @@ (f[1] :> (IF f[3] THEN NumV(IntNum(2)) ELSE <<"o">>))
                    @@ (f[2] :> (IF f[3] THEN NumV(IntNum(1)) ELSE <<"n">>)) :
                  f \in LegacyFields}
              \cup
              {base @@ c @@ r :
                  c \in {"cap" :> NumV(IntNum(2)),
                         "cap" :> StrV(<<"1">>),
                         "cap" :> StrV(<<"2", ".", "7">>),
                         "cap" :> StrV(<<"0">>),
                         "cap" :> StrV(<<"0", ".", "5">>),
                         "cap" :> NumV(IntNum(-1)),
                         "cap" :> StrV(<<"x">>),
                         "cap" :> StrV(<< >>),
                         "title" :> base.title},
                  r \in {"registrations" :> << >>,
                         "registrations" :> <<r1>>,
                         "registrations" :> <<r2, r1>>}} :
          /\ InitApp(<<normalizeLegacyEventFields(raw)>>)
          /\ input = <<raw>>
    /\ result = << >>

NextLegacy ==
    \/ openEvent
    \/ setRegFields(Registrants)
    \/ submitRegistration
    \/ submitUnregister

SpecLegacy == InitLegacy /\ [][NextLegacy]_vars

(***************************** the newsletter ******************************)

\* the visitor types an address into the newsletter field of the home
\* page: well formed, in another case and padded, or malformed
setNewsletterEmail ==
    /\ rendered.route.name = "home"
    /\ newsletterEmail' \in
          {<<"a", "@", "b", ".", "c">>,
           <<" ", "A", "@", "b", ".", "C", "\n">>,
           <<"A", "@", "B", ".", "C">>,
           <<"x", "@", "y", ".", "z">>,
           <<"a", "@", "b", ".", "c", ".", "d">>,
           <<"a", "@", "b">>,
           <<"a", ".", "b">>,
           <<"a", " ", "b", "@", "c", ".", "d">>,
           <<"@", "b", ".", "c">>,
           <<"a", "@", ".", "c">>,
           <<"a", "@", "b", ".">>,
           <<"a", "@", "@", "b", ".", "c">>,
           <<"a", "@", "b", "@", "c", ".", "d">>,
           <<" ">>}
    /\ UNCHANGED <<appVars, modalVars, rendered, now, nextUid, subscribers,
                   download, input, result>>

\* Subscribe. (The handler takes the address from the render it belongs
\* to; the updater looks the address up in the list as it is, whatever the
\* render showed.)
Subscribe ==
    /\ rendered.route.name = "home"
    /\ LET e == ToLowerCase(Trim(newsletterEmail))
       IN  IF ~validateEmail(e)
           THEN UNCHANGED <<subscribers, newsletterEmail>>
           ELSE /\ subscribers' =
                      IF \E i \in 1..Len(subscribers) : subscribers[i] = e
                      THEN subscribers
                      ELSE <<e>> \o subscribers
                /\ newsletterEmail' = << >>
    /\ UNCHANGED <<appVars, modalVars, rendered, now, nextUid, download,
                   input, result>>

NextNewsletter == setNewsletterEmail \/ Subscribe

SpecNewsletter == Init /\ [][NextNewsletter]_vars

(***************************** the registration ledger *********************)

\* The identifier as the specification normalises it: every white-space
\* character removed and the letters upper-cased.
Canon(s) == ToUpperCase(SelectSeq(s, LAMBDA c : c \notin WhiteSpace))

NonBlank(s) == \E i \in 1..Len(s) : s[i] \notin WhiteSpace

\* the event's playerCap is a positive finite integer
HasCap(ev) ==
    /\ ev.playerCap.t = "num"
    /\ ~ev.playerCap.n.nan
    /\ ~ev.playerCap.n.neg
    /\ ev.playerCap.n.frac = << >>
    /\ ev.playerCap.n.int > 0

CapOf(ev) == ev.playerCap.n.int

Count(ev) == Len(ev.registrations)

IsFull(ev) == HasCap(ev) /\ Count(ev) >= CapOf(ev)

\* some registration of the event carries the identifier s, normalised
Holds(ev, s) ==
    \E i \in 1..Count(ev) : Canon(ev.registrations[i].neuronId) = Canon(s)

\* the handlers are those of a render of the state as it is
Fresh ==
    /\ rendered.events = events
    /\ rendered.route = route
    /\ rendered.regFirst = regFirst
    /\ rendered.regLast = regLast
    /\ rendered.regNeuronId = regNeuronId

\* a visitor is on the page of an event of the store
Viewing == route.name = "event" /\ HasEvent(events, route.id)

Viewed == FindEvent(events, route.id)

ViewedNext == FindEvent(events', route.id)

\* the event of the page as the last render showed it
ViewedThen == FindEvent(rendered.events, rendered.route.id)

\* a register call, and an unregister call, evaluated against the store
\* as it is
RegisterCall == Viewing /\ Fresh /\ submitRegistration

UnregisterCall == Viewing /\ Fresh /\ submitUnregister

\* C1: capacity invariant. In every reachable state, every event whose
\* playerCap is a positive finite integer holds at most playerCap
\* registrations.
CapacityInvariant ==
    \A i \in 1..Len(events) :
        HasCap(events[i]) => Count(events[i]) <= CapOf(events[i])

\* C2: uniqueness invariant. In every reachable state no event holds two
\* registrations whose normalised neuronId is equal.
UniqueNeuronIds ==
    \A i \in 1..Len(events) :
        \A j, k \in 1..Count(events[i]) :
            j # k => Canon(events[i].registrations[j].neuronId)
                       # Canon(events[i].registrations[k].neuronId)

\* C2 witness: one render handled two submissions of one identifier for an
\* event with room for both, each passed the checks of the handler, and
\* the event holds the identifier once.
SameIdentifierTwiceStoredOnce ==
    /\ Viewing
    /\ rendered.registerCalls = 2
    /\ regMsg = MsgRegistered
    /\ HasEvent(rendered.events, rendered.route.id)
    /\ Count(ViewedThen) = 0
    /\ HasCap(Viewed)
    /\ CapOf(Viewed) = 2
    /\ Count(Viewed) = 1

\* C3: admission up to the cap. A register call on an event with a cap,
\* made with non-blank names and an identifier the event does not hold,
\* is admitted while the count is below the cap (the count grows by one);
\* at the cap the call is rejected with CapacityReached and the store is
\* unchanged. Each call is evaluated against the store the previous call
\* left.
AdmissionUpToCap ==
    [][RegisterCall /\ HasCap(Viewed) =>
          IF Count(Viewed) >= CapOf(Viewed)
          THEN regMsg' = MsgCapacityReached /\ events' = events
          ELSE (/\ NonBlank(regFirst)
                /\ NonBlank(regLast)
                /\ NonBlank(regNeuronId)
                /\ ~Holds(Viewed, regNeuronId))
               => /\ regMsg' = MsgRegistered
                  /\ Count(ViewedNext) = Count(Viewed) + 1
                  /\ Holds(ViewedNext, regNeuronId)]_vars

\* C3 witness: an event with a cap of 2 holds two registrations of distinct
\* identifiers, and a further call has been rejected with CapacityReached.
FilledThenRefused ==
    /\ Viewing
    /\ HasCap(Viewed)
    /\ CapOf(Viewed) = 2
    /\ Count(Viewed) = 2
    /\ regMsg = MsgCapacityReached
    /\ NonBlank(regFirst) /\ NonBlank(regLast) /\ NonBlank(regNeuronId)

\* C4: duplicate prevention. A register call with non-blank names on an
\* event that is not full and holds the identifier, normalised, is rejected
\* with DuplicateRegistrant and the store is unchanged.
DuplicatePrevention ==
    [][(/\ RegisterCall
        /\ ~IsFull(Viewed)
        /\ NonBlank(regFirst)
        /\ NonBlank(regLast)
        /\ NonBlank(regNeuronId)
        /\ Holds(Viewed, regNeuronId))
       => regMsg' = MsgDuplicate /\ events' = events]_vars

\* C4 witness: a call was rejected as a duplicate on an event that is not
\* full, for an identifier typed in another case and with white space.
DuplicateRefusedAcrossSpelling ==
    /\ Viewing
    /\ ~IsFull(Viewed)
    /\ regMsg = MsgDuplicate
    /\ Holds(Viewed, regNeuronId)
    /\ \A i \in 1..Count(Viewed) :
          Viewed.registrations[i].neuronId # regNeuronId

\* C5: unregister round trip. A successful register puts one record, with
\* the normalised identifier, in front of the list it found; an unregister
\* with any identifier that normalises to the one of a record of the event
\* succeeds and removes that record and no other, so the unregister that
\* follows the register leaves the list the register found.
UnregisterRoundTrip ==
    [][/\ (RegisterCall /\ regMsg' = MsgRegistered)
          => /\ Count(ViewedNext) = Count(Viewed) + 1
             /\ Tail(ViewedNext.registrations) = Viewed.registrations
             /\ Head(ViewedNext.registrations).neuronId = Canon(regNeuronId)
       /\ (UnregisterCall /\ Holds(Viewed, regNeuronId))
          => /\ regMsg' = MsgUnregistered
             /\ Count(ViewedNext) = Count(Viewed) - 1
             /\ ViewedNext.registrations
                  = SelectSeq(Viewed.registrations, LAMBDA r :
                        Canon(r.neuronId) # Canon(regNeuronId))]_vars

\* C5 witness: an unregister of "a 1" followed by a line break has removed
\* the record "A1" that the page showed.
UnregisteredAcrossSpelling ==
    /\ Viewing
    /\ regMsg = MsgUnregistered
    /\ rendered.regNeuronId = <<"a", " ", "1", "\n">>
    /\ HasEvent(rendered.events, rendered.route.id)
    /\ \E i \in 1..Count(ViewedThen) :
          ViewedThen.registrations[i].neuronId = <<"A", "1">>
    /\ ~Holds(Viewed, <<"A", "1">>)

\* C6: unregister rejection. An unregister call whose identifier is empty
\* once normalised is rejected with ValidationError, and one whose
\* identifier matches no registration of the event is rejected with
\* NotRegistered; either way the events store, updatedAt included, is
\* unchanged.
UnregisterRejection ==
    [][UnregisterCall /\ ~Holds(Viewed, regNeuronId) =>
          /\ events' = events
          /\ regMsg' = IF NonBlank(regNeuronId) THEN MsgNotRegistered
                       ELSE MsgNeuronIdRequired]_vars

\* C6 witness: time has passed since the event was last written, it holds
\* a registration, and an unregister of another identifier was rejected
\* with NotRegistered.
UnknownIdentifierRefused ==
    /\ Viewing
    /\ regMsg = MsgNotRegistered
    /\ NonBlank(regNeuronId)
    /\ Count(Viewed) > 0
    /\ Viewed.updatedAt < now

\* the second of two register submissions that one render handles for an
\* event it showed one seat short of its cap, the first having reported
\* success
SecondCallForLastSeat ==
    /\ Viewing
    /\ rendered.registerCalls = 1
    /\ regMsg = MsgRegistered
    /\ HasEvent(rendered.events, rendered.route.id)
    /\ HasCap(ViewedThen)
    /\ Count(ViewedThen) = CapOf(ViewedThen) - 1
    /\ submitRegistration

\* C7, as amended: two register submissions evaluated against one snapshot
\* with count = playerCap - 1 both pass the checks of the handler and both
\* report success, but the write of the second is checked again against
\* the store and dropped: the event holds playerCap registrations.
RaceKeepsCapacity ==
    [][SecondCallForLastSeat =>
          /\ regMsg' = MsgRegistered
          /\ events' = events
          /\ Count(ViewedNext) = CapOf(ViewedNext)]_vars

\* C7 witness: both submissions were handled and reported success, and the
\* event the render showed at playerCap - 1 holds playerCap registrations.
BothReportedOneStored ==
    /\ Viewing
    /\ rendered.registerCalls = 2
    /\ regMsg = MsgRegistered
    /\ HasEvent(rendered.events, rendered.route.id)
    /\ HasCap(ViewedThen)
    /\ Count(ViewedThen) = CapOf(ViewedThen) - 1
    /\ Count(Viewed) = CapOf(Viewed)

\* C7, as stated: the two submissions are both admitted, and the event
\* then holds more registrations than playerCap.
RaceBreachesCapacity ==
    [][SecondCallForLastSeat =>
          /\ regMsg' = MsgRegistered
          /\ Count(ViewedNext) > CapOf(ViewedNext)]_vars

(***************************** the event modal, checked ********************)

\* a step of submit (its first conjunct follows from submit, which leaves
\* the form as it is or closes the modal, and spares evaluating submit on
\* the steps that type a draft)
SubmitStep == (form' = form \/ ~modalOpen') /\ submit

\* DD/MM/YY: two digits, a slash, two digits, a slash, two digits, with a
\* day of 01..31 and a month of 01..12
IsCanonicalDate(s) ==
    /\ Len(s) = 8
    /\ s[3] = "/" /\ s[6] = "/"
    /\ \A i \in {1, 2, 4, 5, 7, 8} : IsDigit(s[i])
    /\ 10 * DigitVal(s[1]) + DigitVal(s[2]) \in 1..31
    /\ 10 * DigitVal(s[4]) + DigitVal(s[5]) \in 1..12

\* HH:MM with an hour of 00..23 and a minute of 00..59
IsHHMM(s) ==
    /\ Len(s) = 5
    /\ s[3] = ":"
    /\ \A i \in {1, 2, 4, 5} : IsDigit(s[i])
    /\ 10 * DigitVal(s[1]) + DigitVal(s[2]) \in 0..23
    /\ 10 * DigitVal(s[4]) + DigitVal(s[5]) \in 0..59

\* a stored number that is >= 0
IsFee(v) ==
    /\ v.t = "num"
    /\ ~v.n.nan
    /\ ~(v.n.neg /\ (v.n.int > 0 \/ v.n.frac # << >>))

\* a stored number that is an integer >= 1
IsCountingNumber(v) ==
    /\ v.t = "num"
    /\ ~v.n.nan
    /\ ~v.n.neg
    /\ v.n.frac = << >>
    /\ v.n.int >= 1

\* C8: validated-store invariant. Every stored event has an image, a
\* non-blank title and location, its three dates in canonical DD/MM/YY
\* form, its two times in valid HH:MM form, fees that are numbers >= 0,
\* playerCap and swissRounds that are integers >= 1, and a non-blank
\* topCut: no draft that fails a validator is stored, and no raw form
\* string is.
ValidatedStore ==
    \A i \in 1..Len(events) :
        LET e == events[i]
        IN  /\ e.imageDataUrl # ""
            /\ NonBlank(e.title) /\ e.title = Trim(e.title)
            /\ NonBlank(e.location) /\ e.location = Trim(e.location)
            /\ IsCanonicalDate(e.date)
            /\ IsCanonicalDate(e.preregStartDate)
            /\ IsCanonicalDate(e.preregEndDate)
            /\ IsHHMM(e.regStartTime)
            /\ IsHHMM(e.tournamentStartTime)
            /\ IsFee(e.preregFee)
            /\ IsFee(e.nonRegFee)
            /\ IsCountingNumber(e.playerCap)
            /\ IsCountingNumber(e.swissRounds)
            /\ NonBlank(e.topCut)

\* C8 witness: the store holds an event made from a draft typed with a
\* padded title, a date of one-digit day and month, a cap of 2.7 and a
\* time followed by a space, each stored in its normal form.
NormalisedDraftStored ==
    \E i \in 1..Len(events) :
        /\ events[i].title = <<"C", "u", "p">>
        /\ events[i].date = <<"0", "1", "/", "0", "3", "/", "2", "6">>
        /\ events[i].playerCap = NumV(IntNum(2))
        /\ events[i].regStartTime = <<"0", "9", ":", "3", "0">>
        /\ events[i].preregStartDate = <<"0", "1", "/", "0", "2", "/", "2", "6">>

\* The rules of the specification, in its order. RuleViolated(k, f): the
\* form f violates rule k. RuleErrors(k): the messages that report it.
RuleViolated(k, f) ==
    CASE k = 1  -> f.imageDataUrl = ""
      [] k = 2  -> ~NonBlank(f.title)
      [] k = 3  -> normalizeDateInput(sanitizeText(f.date)) = << >>
      [] k = 4  -> ~NonBlank(f.location)
      [] k = 5  -> f.preregFee = << >>
      [] k = 6  -> f.nonRegFee = << >>
      [] k = 7  -> f.playerCap = << >>
      [] k = 8  -> f.swissRounds = << >>
      [] k = 9  -> f.topCut = << >>
      [] k = 10 -> ~IsHHMM(Trim(f.regStartTime))
      [] k = 11 -> ~IsHHMM(Trim(f.tournamentStartTime))
      [] k = 12 -> normalizeDateInput(f.preregStartDate) = << >>
      [] k = 13 -> normalizeDateInput(f.preregEndDate) = << >>
      [] k = 14 -> JsNumber(f.preregFee).nan \/ IsNegative(JsNumber(f.preregFee))
      [] k = 15 -> JsNumber(f.nonRegFee).nan \/ IsNegative(JsNumber(f.nonRegFee))
      [] k = 16 -> ~IsCountingNumber(NumV(asIntOrNaN(StrV(f.playerCap))))
      [] k = 17 -> ~IsCountingNumber(NumV(asIntOrNaN(StrV(f.swissRounds))))
      [] k = 18 -> ~NonBlank(f.topCut)

RuleErrors(k) ==
    CASE k = 1  -> {ErrImage}
      [] k = 2  -> {ErrTitle}
      [] k = 3  -> {ErrDateRequired, ErrDateInvalid}
      [] k = 4  -> {ErrLocation}
      [] k = 5  -> {ErrPreregFeeRequired}
      [] k = 6  -> {ErrNonRegFeeRequired}
      [] k = 7  -> {ErrPlayerCapRequired}
      [] k = 8  -> {ErrSwissRequired}
      [] k = 9  -> {ErrTopCut}
      [] k = 10 -> {ErrRegStartRequired, ErrRegStartInvalid}
      [] k = 11 -> {ErrTournamentStartRequired, ErrTournamentStartInvalid}
      [] k = 12 -> {ErrPreStartRequired, ErrPreStartInvalid}
      [] k = 13 -> {ErrPreEndRequired, ErrPreEndInvalid}
      [] k = 14 -> {ErrPreregFeeNumber}
      [] k = 15 -> {ErrNonRegFeeNumber}
      [] k = 16 -> {ErrPlayerCapNumber}
      [] k = 17 -> {ErrSwissNumber}
      [] k = 18 -> {ErrTopCut}

ViolatedRules(f) == {k \in 1..18 : RuleViolated(k, f)}

\* the earliest rule f violates, 0 when it violates none
FirstViolated(f) ==
    LET v == ViolatedRules(f)
    IN  IF v = {} THEN 0 ELSE CHOOSE k \in v : \A j \in v : k <= j

\* C9: fail-fast validation order. A submit reports one error, that of the
\* earliest rule the draft violates in the order image, title, date,
\* location, the five fields present, the two times, the two
\* pre-registration dates, the two fees, playerCap, swissRounds, topCut
\* after trim; it reports none when no rule is violated.
FailFastOrder ==
    [][SubmitStep =>
          LET k == FirstViolated(form)
          IN  IF k = 0 THEN err' = "" ELSE err' \in RuleErrors(k)]_vars

\* C9 witness: the modal shows the error of the earliest rule violated by
\* a form that has an image and violates later rules as well.
EarliestOfSeveralReported ==
    /\ modalOpen
    /\ form.imageDataUrl # ""
    /\ Cardinality(ViolatedRules(form)) >= 3
    /\ err \in RuleErrors(FirstViolated(form))
    /\ \A k \in ViolatedRules(form) :
          k # FirstViolated(form) => err \notin RuleErrors(k)

\* playerCap coerces to not-a-number or to an integer <= 0
CapRefused(s) ==
    LET n == asIntOrNaN(StrV(s))
    IN  n.nan \/ n.neg \/ n.int = 0

\* C10: a rejected event submit changes nothing. A submit, to create or to
\* edit, of a draft that has no image or whose playerCap coerces to an
\* integer <= 0 or to not-a-number shows an error and leaves the events
\* list, every event, the open modal and the form as they were.
RejectedSubmitChangesNothing ==
    [][SubmitStep /\ (form.imageDataUrl = "" \/ CapRefused(form.playerCap)) =>
          /\ err' # ""
          /\ modalOpen'
          /\ UNCHANGED <<appVars, eventId, form>>]_vars

\* C10 witness: an edit of a stored event with an otherwise complete draft
\* of playerCap "-3" was refused, and the event is as it was published.
NegativeCapEditRefused ==
    /\ modalOpen
    /\ modalMode = "edit"
    /\ HasEvent(events, editingId)
    /\ form = [RawDraft EXCEPT !.playerCap = <<"-", "3">>]
                 @@ [imageDataUrl |-> "data:image"]
    /\ err = ErrPlayerCapNumber
    /\ FindEvent(events, editingId).playerCap = NumV(IntNum(2))

(***************************** the date parser, checked ********************)

\* n in 0..99 written in two digits
TwoDigits(n) == <<Digits[(n \div 10) + 1], Digits[(n % 10) + 1]>>

\* day d of month m of year y exists in the calendar
IsCalendarDate(y, m, d) ==
    /\ m \in 1..12
    /\ d >= 1
    /\ d <= CASE m \in {1, 3, 5, 7, 8, 10, 12} -> 31
              [] m \in {4, 6, 9, 11} -> 30
              [] OTHER -> IF y % 400 = 0 \/ (y % 4 = 0 /\ y % 100 # 0)
                          THEN 29 ELSE 28

\* the day, the month and the two-digit year the parts typed stand for
DayTyped == DigitsToNat(input.dd)

MonthTyped == DigitsToNat(input.mm)

YearTyped ==
    IF Len(input.yy) = 4 THEN DigitsToNat(input.yy) % 100
    ELSE DigitsToNat(input.yy)

\* the text typed spells a real date of 2000..2099 as D/M/YY, DD/MM/YYYY
\* and the like: day and month in one or two digits, the year in two or
\* four
IsSpelling ==
    /\ Len(input.dd) \in {1, 2}
    /\ Len(input.mm) \in {1, 2}
    /\ Len(input.yy) \in {2, 4}
    /\ Len(input.yy) = 4 => DigitsToNat(input.yy) \in 2000..2099
    /\ IsCalendarDate(2000 + YearTyped, MonthTyped, DayTyped)

\* C11: date canonicalization. Every spelling of a real date of 2000..2099
\* (any two of the separators / . - space, with or without leading zeros,
\* the year in 2 or 4 digits, with or without a trailing dot) parses, to the
\* zero-padded DD/MM/YY of that date, the same for all of its spellings;
\* parsing that output again returns it unchanged.
DateCanonicalization ==
    (IsSpelling /\ result # << >>)
    => /\ result[1].ok
       /\ result[1].norm = TwoDigits(DayTyped) \o <<"/">>
                           \o TwoDigits(MonthTyped) \o <<"/">>
                           \o TwoDigits(YearTyped)
       /\ Len(result) = 2 => result[2] = result[1]

\* C11 witness: "1.3-2026." was parsed to 01/03/26, and 01/03/26 parsed
\* again.
MixedSpellingParsedTwice ==
    /\ input.text = <<"1", ".", "3", "-", "2", "0", "2", "6", ".">>
    /\ Len(result) = 2
    /\ result[2].norm = <<"0", "1", "/", "0", "3", "/", "2", "6">>

\* C12: calendar validity. A text of three parts of digits parses exactly
\* when the year has 1, 2 or 4 digits, the month is in 1..12, the day is in
\* 1..31 and the day exists in that month of the year 2000 + yy, yy being
\* the year mod 100 when it has 4 digits and the year itself otherwise.
CalendarValidity ==
    result # << >>
    => (result[1].ok <=> /\ Len(input.yy) \in {1, 2, 4}
                         /\ MonthTyped \in 1..12
                         /\ DayTyped \in 1..31
                         /\ IsCalendarDate(2000 + YearTyped, MonthTyped,
                                           DayTyped))

\* C12 witness: 29/02/23 was parsed and refused.
LeapDayOfCommonYearRefused ==
    /\ input.text = <<"2", "9", "/", "0", "2", "/", "2", "3">>
    /\ result = <<DateFail>>

(***************************** the stored list, checked ********************)

\* s without the white space before and after it
Core(s) ==
    LET ink == {i \in 1..Len(s) : s[i] \notin WhiteSpace}
    IN  IF ink = {} THEN << >>
        ELSE SubSeq(s, CHOOSE i \in ink : \A j \in ink : i <= j,
                       CHOOSE i \in ink : \A j \in ink : i >= j)

\* a submit in the edit modal of a draft that breaks no rule but, at most,
\* those of the two times
EditOfTimes ==
    /\ SubmitStep
    /\ modalMode = "edit"
    /\ ViolatedRules(form) \subseteq {10, 11}

\* the event being edited, after the step
EditedNext == FindEvent(events', editingId)

\* C13, as amended: time validation. A time passes exactly when, white
\* space before and after it stripped, it is two digits, a colon and two
\* digits with an hour of 0..23 and a minute of 0..59; a draft whose times
\* pass is stored, each time stored stripped, which is the time as typed
\* when nothing surrounds it; a draft one of whose times fails is refused
\* and the store is unchanged.
TimeStoredStripped ==
    [][EditOfTimes =>
          IF /\ IsHHMM(Core(form.regStartTime))
             /\ IsHHMM(Core(form.tournamentStartTime))
          THEN /\ ~modalOpen'
               /\ EditedNext.regStartTime = Core(form.regStartTime)
               /\ EditedNext.tournamentStartTime
                    = Core(form.tournamentStartTime)
          ELSE /\ modalOpen'
               /\ events' = events
               /\ err' \in RuleErrors(10) \cup RuleErrors(11)]_vars

\* C13 witness: the start of registration typed as a line break and 00:00
\* is stored as 00:00.
PaddedTimeStoredStripped ==
    /\ ~modalOpen
    /\ \E i \in 1..Len(events) :
          events[i].regStartTime = <<"0", "0", ":", "0", "0">>

\* C13, as stated: a time passes exactly when it is two digits, a colon
\* and two digits in range, and a time that passes is stored as typed.
TimeStoredVerbatim ==
    [][EditOfTimes =>
          IF IsHHMM(form.regStartTime) /\ IsHHMM(form.tournamentStartTime)
          THEN /\ ~modalOpen'
               /\ EditedNext.regStartTime = form.regStartTime
               /\ EditedNext.tournamentStartTime = form.tournamentStartTime
          ELSE /\ modalOpen'
               /\ events' = events]_vars

\* the fields of the payload of the form
PatchFields == FormTextFields \cup {"imageDataUrl"}

\* C16: update frame. A submit of a valid draft in the edit modal leaves
\* the id, createdAt and the registrations of the event edited as they
\* were, sets its updatedAt to the time of the update, changes no field
\* that the payload does not carry, and leaves every other event and the
\* order of the list as they were; updateEvent for an id the list does not
\* hold returns the list it was given.
UpdateFrame ==
    [][/\ \A id \in {0, 100, 103} :
             updateEvent(events, id, submitPayload(form), now) = events
       /\ (modalMode = "edit" /\ SubmitStep /\ ~modalOpen')
          => /\ Len(events') = Len(events)
             /\ \A i \in 1..Len(events) :
                   IF events[i].id # editingId THEN events'[i] = events[i]
                   ELSE /\ events'[i].id = events[i].id
                        /\ events'[i].createdAt = events[i].createdAt
                        /\ events'[i].registrations = events[i].registrations
                        /\ events'[i].updatedAt = now
                        /\ DOMAIN events'[i] = DOMAIN events[i]
                        /\ \A k \in DOMAIN events[i] :
                              k \notin PatchFields \cup {"updatedAt"}
                              => events'[i][k] = events[i][k]]_vars

\* C16 witness: the older event was edited after time had passed: its
\* title, cap and updatedAt are new, its two registrations and createdAt
\* are those it had, and the other event is as it was stored.
EditedLaterKeepsLedger ==
    /\ ~modalOpen
    /\ Len(events) = 2
    /\ events[1].title = <<"O", "p", "e", "n">>
    /\ events[1].updatedAt = events[1].createdAt
    /\ events[2].title = <<"C", "u", "p", " ", "2">>
    /\ events[2].playerCap = NumV(IntNum(16))
    /\ events[2].updatedAt > events[2].createdAt
    /\ Len(events[2].registrations) = 2
    /\ events[2].registrations[1].neuronId = <<"B", "2">>
    /\ events[2].registrations[2].neuronId = <<"A", "1">>

(***************************** the identifier, checked *********************)

IsLowerCase(c) == \E i \in 1..26 : Lower[i] = c

\* C14: identifier normalization is idempotent and total. For every text,
\* normalizeNeuronId returns the text without its white space and with its
\* letters in upper case: the result holds no white-space character and no
\* lower-case letter, and normalising it again returns it unchanged.
IdNormalization ==
    /\ \A i \in 1..Len(result) :
          \A k \in 1..Len(result[i]) :
              result[i][k] \notin WhiteSpace /\ ~IsLowerCase(result[i][k])
    /\ Len(result) >= 1 => result[1] = Canon(input)
    /\ Len(result) = 2 => result[2] = result[1]

\* C14 witness: a text of letters of both cases with a line break between
\* them was normalised twice.
MixedTextNormalisedTwice ==
    /\ input = <<"a", "\n", "B">>
    /\ result = << <<"A", "B">>, <<"A", "B">> >>

(***************************** the export, checked *************************)

\* the lines of a text: what stands before each newline, and what follows
\* the last one when that is not empty
RECURSIVE LinesOf(_)
LinesOf(c) ==
    IF c = << >> THEN << >>
    ELSE IF \E i \in 1..Len(c) : c[i] = "\n"
         THEN LET n == CHOOSE i \in 1..Len(c) :
                          c[i] = "\n" /\ \A j \in 1..(i - 1) : c[j] # "\n"
              IN  <<SubSeq(c, 1, n - 1)>> \o LinesOf(SubSeq(c, n + 1, Len(c)))
         ELSE <<c>>

\* a name on one line: each run of line breaks in it turned into a space
OneLine(s) == CollapseRuns(s, LineBreaks, " ")

\* the line of a registration
LineFor(r) ==
    OneLine(r.firstName) \o <<"-">> \o OneLine(r.lastName) \o <<"-">>
    \o Canon(r.neuronId)

\* C15: registrant export. For an event with k registrations the text
\* exported is the header line `title | date | location` followed by
\* exactly k lines, one per registration, each firstName-lastName-
\* normalizedNeuronId (a line break inside a name written as a space);
\* every line, the header included, ends with a newline, and no
\* registration is left out or split over lines.
RegistrantExport ==
    [][exportRegistrationsTxt =>
          LET ev    == ViewedThen
              k     == Count(ev)
              c     == download'.content
              lines == LinesOf(c)
          IN  /\ c # << >>
              /\ c[Len(c)] = "\n"
              /\ Cardinality({i \in 1..Len(c) : c[i] = "\n"}) = k + 1
              /\ Len(lines) = k + 1
              /\ lines[1] = ev.title \o <<" ", "|", " ">> \o ev.date
                            \o <<" ", "|", " ">> \o ev.location
              /\ \A i \in 1..k :
                    \E j \in 2..(k + 1) :
                        lines[j] = LineFor(ev.registrations[i])
              /\ \A j \in 2..(k + 1) :
                    \E i \in 1..k : lines[j] = LineFor(ev.registrations[i])]_vars

\* C15 witness: the export of the event that holds two registrations, one
\* with a line break in the first name, is the header and two lines.
TwoRegistrantsExported ==
    /\ Viewing
    /\ Count(Viewed) = 2
    /\ \E i \in 1..2 : \E k \in 1..Len(Viewed.registrations[i].firstName) :
          Viewed.registrations[i].firstName[k] = "\n"
    /\ download.content # << >>
    /\ Len(LinesOf(download.content)) = 3
    /\ LinesOf(download.content)[2] = <<"A", "n", " ", "a", "-", "B", "-", "A", "1">>
    /\ LinesOf(download.content)[3] = <<"I", "v", "o", "-", "C", "-", "D", "-", "B", "2">>

(***************************** the upsert, checked *************************)

\* an event to publish, under the id given
Republished(id) ==
    [id            |-> id,
     title         |-> <<"N", "e", "w">>,
     date          |-> <<"0", "1", "/", "0", "3", "/", "2", "6">>,
     location      |-> <<"Z", "g">>,
     playerCap     |-> NumV(IntNum(8)),
     registrations |-> << >>,
     createdAt     |-> 0,
     updatedAt     |-> 0]

\* C17: idempotent upsert. No two stored events share an id; and for the
\* list as it stands and an event of any id, upsertEvent applied twice
\* yields what it yields applied once, an event whose id the list lacks is
\* added as one entry in front of the others, and an event whose id the
\* list holds replaces that entry where it is, the length unchanged.
IdempotentUpsert ==
    /\ \A i, j \in 1..Len(events) : i # j => events[i].id # events[j].id
    /\ \A id \in 1..(MaxUid + 1) :
          LET e     == Republished(id)
              once  == upsertEvent(events, e)
              twice == upsertEvent(once, e)
          IN  /\ twice = once
              /\ IF \E i \in 1..Len(events) : events[i].id = id
                 THEN /\ Len(once) = Len(events)
                      /\ \A i \in 1..Len(events) :
                            once[i] = IF events[i].id = id THEN e
                                      ELSE events[i]
                 ELSE /\ Len(once) = Len(events) + 1
                      /\ once[1] = e
                      /\ Tail(once) = events

\* C17 witness: three events have been published, one in front of the
\* other, each under its own id.
ThreeEventsPublished ==
    /\ Len(events) = 3
    /\ events[1].id > events[2].id
    /\ events[2].id > events[3].id

(***************************** the newsletter, checked *********************)

\* an address the validator is to pass: no white space, one @ that is not
\* its first character, and a dot after the @ that neither follows it
\* directly nor ends the address
IsEmail(s) ==
    /\ \A i \in 1..Len(s) : s[i] \notin WhiteSpace
    /\ \E a \in 2..Len(s) :
          /\ s[a] = "@"
          /\ \A i \in 1..Len(s) : s[i] = "@" => i = a
          /\ \E d \in (a + 1)..Len(s) :
                s[d] = "." /\ d > a + 1 /\ d < Len(s)

\* the address typed, stripped and in lower case
AddressTyped == ToLowerCase(Core(newsletterEmail))

Subscribed(s) == \E i \in 1..Len(subscribers) : subscribers[i] = s

\* C18: subscriber set. The list only ever changes by a valid address that
\* it does not hold, stripped and lower-cased, being put in front of it: an
\* invalid address, and one that differs from a stored one in case or
\* surrounding white space only, leave it as it is, and a valid new one is
\* added; so the list holds no duplicate, and every entry is lower-cased
\* and passes the validator.
SubscriberSet ==
    [][/\ subscribers' # subscribers
          => /\ IsEmail(AddressTyped)
             /\ ~Subscribed(AddressTyped)
             /\ subscribers' = <<AddressTyped>> \o subscribers
       /\ (Subscribe /\ IsEmail(AddressTyped) /\ ~Subscribed(AddressTyped))
          => subscribers' # subscribers
       /\ \A i \in 1..Len(subscribers') :
             /\ IsEmail(subscribers'[i])
             /\ \A k \in 1..Len(subscribers'[i]) :
                   \A j \in 1..26 : subscribers'[i][k] # Upper[j]
             /\ \A j \in 1..Len(subscribers') :
                   i # j => subscribers'[i] # subscribers'[j]]_vars

\* C18 witness: a@b.c is stored, and the address " A@b.C" followed by a
\* line break, then typed and submitted, has left the list of two as it
\* was.
VariantLeftListUnchanged ==
    /\ Len(subscribers) = 2
    /\ Subscribed(<<"a", "@", "b", ".", "c">>)
    /\ newsletterEmail = << >>
    /\ ~Subscribed(<<"a", "@", "b", ".", "c", ".", "d">>)

(***************************** earlier versions, checked ********************)

\* the historical names and the canonical name each is migrated onto
HistoricalNames ==
    [preRegistrationFee    |-> "preregFee",
     fee                   |-> "preregFee",
     price                 |-> "preregFee",
     cap                   |-> "playerCap",
     swiss                 |-> "swissRounds",
     topcut                |-> "topCut",
     otherNotes            |-> "notes",
     registrationStartTime |-> "regStartTime",
     startTime             |-> "tournamentStartTime",
     preRegStartDate       |-> "preregStartDate",
     preRegEndDate         |-> "preregEndDate",
     preregCancelEndDate   |-> "preregEndDate"]

\* the record holds the historical name h and no other name, historical or
\* canonical, of the same field
OnlyUnder(raw, h) ==
    /\ h \in DOMAIN raw
    /\ HistoricalNames[h] \notin DOMAIN raw
    /\ \A k \in DOMAIN HistoricalNames :
          (k # h /\ HistoricalNames[k] = HistoricalNames[h]) => k \notin DOMAIN raw

\* the cap an event closes at: the whole part of the number its playerCap
\* stands for when that is 1 or more, and 0 for no cap
Limit(v) ==
    LET n == IF v.t = "str" THEN JsNumber(v.s) ELSE v.n
    IN  IF n.nan \/ n.neg THEN 0 ELSE n.int

Registered(ev) ==
    IF "registrations" \in DOMAIN ev THEN Len(ev.registrations) ELSE 0

\* FULL: the cap is a positive integer and the count has reached it
Full(ev) == Limit(ev.playerCap) > 0 /\ Registered(ev) >= Limit(ev.playerCap)

\* C19: legacy field migration. Every event of the list is the event read
\* from storage with each canonical field holding the canonical value when
\* the stored record has it and the value under the historical name when
\* it has only that; migrating a migrated event changes nothing; and a
\* register call on an event whose cap was stored under `cap` only, with
\* the count at that cap, is rejected with CapacityReached and leaves the
\* store as it is.
LegacyMigration ==
    [][/\ \A i \in 1..Len(events') :
             LET raw == input[i]
                 ev  == events'[i]
             IN  /\ ev.id = raw.id
                 /\ \A h \in DOMAIN HistoricalNames :
                       LET c == HistoricalNames[h]
                       IN  /\ c \in DOMAIN ev
                           /\ c \in DOMAIN raw => ev[c] = raw[c]
                           /\ OnlyUnder(raw, h) => ev[c] = raw[h]
                 /\ normalizeLegacyEventFields(ev) = ev
                 /\ normalizeLegacyEventFields(normalizeLegacyEventFields(raw))
                       = normalizeLegacyEventFields(raw)
       /\ (/\ RegisterCall
           /\ OnlyUnder(input[1], "cap")
           /\ Limit(input[1].cap) > 0
           /\ Registered(Viewed) >= Limit(input[1].cap))
          => /\ regMsg' = MsgCapacityReached
             /\ events' = events]_vars

\* C19 witness: the stored event has its cap of 2 under `cap` only and no
\* registration; two visitors have registered, and a third call has been
\* rejected with CapacityReached.
LegacyCapEnforced ==
    /\ OnlyUnder(input[1], "cap")
    /\ input[1].cap = NumV(IntNum(2))
    /\ Registered(input[1]) = 0
    /\ Viewing
    /\ Registered(Viewed) = 2
    /\ nextUid = 3
    /\ regMsg = MsgCapacityReached
    /\ NonBlank(regFirst) /\ NonBlank(regLast) /\ NonBlank(regNeuronId)

\* C20: OPEN/FULL is derived. The page of every render shows its event
\* FULL exactly when the cap of the event is a positive integer and the
\* count of that render has reached it. A register call on a FULL event is
\* rejected with CapacityReached and the store unchanged; on an OPEN event,
\* whatever its cap, it is not rejected with CapacityReached, and with
\* non-blank names and an identifier the event does not hold it is
\* admitted. An unregister call that succeeds on a FULL event with the
\* count at the cap leaves the event OPEN.
StatusDerived ==
    [][/\ (rendered'.route.name = "event"
           /\ HasEvent(rendered'.events, rendered'.route.id))
          => LET ev == FindEvent(rendered'.events, rendered'.route.id)
             IN  CapReached(normalizeLegacyEventFields(ev)) <=> Full(ev)
       /\ (RegisterCall /\ Full(Viewed))
          => /\ regMsg' = MsgCapacityReached
             /\ events' = events
       /\ (RegisterCall /\ ~Full(Viewed))
          => /\ regMsg' # MsgCapacityReached
             /\ (/\ NonBlank(regFirst)
                 /\ NonBlank(regLast)
                 /\ NonBlank(regNeuronId)
                 /\ ~HasNeuronId(RegsOf(Viewed), Canon(regNeuronId)))
                => /\ regMsg' = MsgRegistered
                   /\ Registered(ViewedNext) = Registered(Viewed) + 1
       /\ (/\ UnregisterCall
           /\ regMsg' = MsgUnregistered
           /\ Registered(Viewed) = Limit(Viewed.playerCap))
          => /\ Registered(ViewedNext) = Registered(Viewed) - 1
             /\ ~Full(ViewedNext)]_vars

\* C20 witness: an event with a cap of "1" and no registration was filled
\* by one registration, the registrant unregistered, and the next call, of
\* another visitor, was admitted: the event is FULL again.
ReopenedAndRefilled ==
    /\ Viewing
    /\ Limit(Viewed.playerCap) = 1
    /\ Registered(input[1]) = 0
    /\ Registered(Viewed) = 1
    /\ nextUid = 3
    /\ regMsg = MsgRegistered
    /\ Full(Viewed)

(***************************** rejections, checked *************************)

\* C21: register rejection precedence. A register call on a FULL event is
\* rejected with CapacityReached, whatever its fields; on an OPEN event
\* with a blank first name, last name or identifier it is rejected with
\* ValidationError; on an OPEN event with complete fields and an
\* identifier the event holds, with DuplicateRegistrant. Every register
\* that does not report success leaves the events and the typed fields as
\* they were.
RejectionPrecedence ==
    [][/\ (RegisterCall /\ Full(Viewed))
          => regMsg' = MsgCapacityReached
       /\ (/\ RegisterCall
           /\ ~Full(Viewed)
           /\ ~(NonBlank(regFirst) /\ NonBlank(regLast) /\ NonBlank(regNeuronId)))
          => regMsg' = MsgFieldsRequired
       /\ (/\ RegisterCall
           /\ ~Full(Viewed)
           /\ NonBlank(regFirst) /\ NonBlank(regLast) /\ NonBlank(regNeuronId)
           /\ Holds(Viewed, regNeuronId))
          => regMsg' = MsgDuplicate
       /\ (rendered'.registerCalls > rendered.registerCalls
           /\ submitRegistration /\ regMsg' # MsgRegistered)
          => /\ events' = events
             /\ regFirst' = regFirst
             /\ regLast' = regLast
             /\ regNeuronId' = regNeuronId]_vars

\* C21 witness: on the page of the full event a visitor typed a blank
\* first name and an identifier the event holds, and the call was rejected
\* with CapacityReached.
FullBeforeFields ==
    /\ Viewing
    /\ Fresh
    /\ rendered.registerCalls = 1
    /\ Full(Viewed)
    /\ ~NonBlank(regFirst)
    /\ Holds(Viewed, regNeuronId)
    /\ regMsg = MsgCapacityReached

\* the ids of the registrations of every event of the list
RegistrationIds ==
    UNION {{events[i].registrations[k].id : k \in 1..Count(events[i])} :
              i \in 1..Len(events)}

\* every event but the one of the page is what it was
OthersUntouched ==
    /\ Len(events') = Len(events)
    /\ \A i \in 1..Len(events) :
          events[i].id # route.id => events'[i] = events[i]

\* C22: unregister removes only the match. An unregister call that reports
\* success finds one registration of the event with its identifier,
\* normalised, and leaves the registrations before it followed by those
\* after it, one fewer; a register call that reports success puts one
\* record in front of the others, with the normalised identifier and an id
\* that no registration of any event has. Either leaves every other event
\* as it was.
OnlyTheMatch ==
    [][/\ (UnregisterCall /\ regMsg' = MsgUnregistered)
          => LET before == Viewed.registrations
                 after  == ViewedNext.registrations
             IN  /\ Cardinality({k \in 1..Len(before) :
                        Canon(before[k].neuronId) = Canon(regNeuronId)}) = 1
                 /\ \E k \in 1..Len(before) :
                       /\ Canon(before[k].neuronId) = Canon(regNeuronId)
                       /\ after = SubSeq(before, 1, k - 1)
                                    \o SubSeq(before, k + 1, Len(before))
                 /\ OthersUntouched
       /\ (RegisterCall /\ regMsg' = MsgRegistered)
          => LET before == Viewed.registrations
                 after  == ViewedNext.registrations
             IN  /\ Len(after) = Len(before) + 1
                 /\ Tail(after) = before
                 /\ Head(after).neuronId = Canon(regNeuronId)
                 /\ Head(after).id \notin RegistrationIds
                 /\ OthersUntouched]_vars

\* C22 witness: three visitors registered for the empty event, the first
\* with an identifier the other event holds too; the second unregistered,
\* and the third and the first are left, in that order.
MiddleOneRemoved ==
    /\ Viewing
    /\ regMsg = MsgUnregistered
    /\ nextUid = 4
    /\ Count(Viewed) = 2
    /\ Viewed.registrations[1].id = 3
    /\ Viewed.registrations[2].id = 1
    /\ \E i \in 1..Len(events) :
          events[i].id # route.id /\ Count(events[i]) = 2

(***************************** reports, checked ****************************)

\* the event of the page of the last render holds, in the store the step
\* leaves, a registration with the identifier that render had typed
HeldAfter ==
    \E i \in 1..Len(events') :
        /\ events'[i].id = rendered.route.id
        /\ \E k \in 1..Len(RegsOf(events'[i])) :
              Canon(events'[i].registrations[k].neuronId)
                 = Canon(rendered.regNeuronId)

AdminGating ==
    [][events' # events => admin]_vars

====
